---- MODULE Spec2Model ----
(***************************************************************************)
(* Model of the InVEST command-line dispatcher (natcap/invest/cli.py):     *)
(* the model catalog _MODEL_UIS, the resolution of a model token by        *)
(* SelectModelAction, and the headless / GUI branches of main().           *)
(*                                                                         *)
(* Python strings are TLA+ strings; a value that may be None is a tuple:   *)
(* <<>> is None and <<v>> is the value v.                                  *)
(***************************************************************************)
EXTENDS Integers, Sequences, FiniteSets, TLC

VARIABLES
    model_uis,      \* the module-level catalog dictionary _MODEL_UIS
    pc,             \* position of the process inside main()
    argv,           \* sys.argv: the options as given on the command line
    values,         \* SelectModelAction.__call__: the token it was called with
    args,           \* the argparse namespace
    log_configured, \* the root logger has its stream handler
    paramset,       \* the loaded ParameterSet (None before it is read)
    workspace,      \* main(): the local variable `workspace`
    prompts,        \* number of answers read by raw_input so far
    user_response,  \* main(): the answer read last by raw_input (None before)
    calls,          \* calls made to collaborators, in order
    log,            \* records handed to LOGGER, in order
    stdout,         \* what was printed, in order
    stderr,         \* what was written to stderr, in order
    exit_code,      \* exit status of the process (None while it runs)
    ui_installed,   \* environment: sip and natcap.invest.ui can be imported
    isatty,         \* environment: sys.stdout.isatty()
    nonempty_dirs,  \* environment: the directories that exist and hold files
    scenario_args,  \* the parameters dictionary the caller archives
    disk,           \* the file system: absolute path to entry
    documents,      \* the JSON documents on the disk, by their path
    archives,       \* the .tar.gz files on the disk and what they hold
    ntemp,          \* temporary directories made by tempfile so far
    archived,       \* the calls of collect_parameters, in order
    extracted,      \* the call of extract_parameters_archive (None before)
    base_files,     \* pollination.py: the module-level dictionaries of base files
    pollination_args, \* pollination.execute: its argument `args`
    f_reg           \* pollination.execute: the call that builds f_reg (None before)

vars == <<model_uis, pc, argv, values, args, log_configured, paramset, workspace,
          prompts, user_response, calls, log, stdout, stderr, exit_code, ui_installed,
          isatty, nonempty_dirs, scenario_args, disk, documents, archives, ntemp,
          archived, extracted, base_files, pollination_args, f_reg>>

----------------------------------------------------------------------------
(* Python values *)

None == <<>>

Some(v) == <<v>>

(* bool(s) of an optional string: None and '' are falsy *)
Truthy(opt) == opt /= None /\ opt[1] /= ""

----------------------------------------------------------------------------
(* The model catalog *)

_UIMETA(pyname, gui, aliases) ==
    [pyname |-> pyname, gui |-> gui, aliases |-> aliases]

_MODEL_UIS ==
    "carbon" :> _UIMETA("natcap.invest.carbon",
        <<"carbon.Carbon">>,
        <<>>) @@
    "coastal_blue_carbon" :> _UIMETA("natcap.invest.coastal_blue_carbon.coastal_blue_carbon",
        <<"cbc.CoastalBlueCarbon">>,
        <<"cbc">>) @@
    "coastal_blue_carbon_preprocessor" :> _UIMETA("natcap.invest.coastal_blue_carbon.preprocessor",
        <<"cbc.CoastalBlueCarbonPreprocessor">>,
        <<"cbc_pre">>) @@
    "coastal_vulnerability" :> _UIMETA("natcap.invest.coastal_vulnerability.coastal_vulnerability",
        <<"cv.CoastalVulnerability">>,
        <<"cv">>) @@
    "crop_production_percentile" :> _UIMETA("natcap.invest.crop_production_percentile",
        <<"crop_production.CropProductionPercentile">>,
        <<"cpp">>) @@
    "crop_production_regression" :> _UIMETA("natcap.invest.crop_production_regression",
        <<"crop_production.CropProductionRegression">>,
        <<"cpr">>) @@
    "delineateit" :> _UIMETA("natcap.invest.routing.delineateit",
        <<"routing.Delineateit">>,
        <<>>) @@
    "finfish_aquaculture" :> _UIMETA("natcap.invest.finfish_aquaculture.finfish_aquaculture",
        <<"finfish.FinfishAquaculture">>,
        <<>>) @@
    "fisheries" :> _UIMETA("natcap.invest.fisheries.fisheries",
        <<"fisheries.Fisheries">>,
        <<>>) @@
    "fisheries_hst" :> _UIMETA("natcap.invest.fisheries.fisheries_hst",
        <<"fisheries.FisheriesHST">>,
        <<>>) @@
    "forest_carbon_edge_effect" :> _UIMETA("natcap.invest.forest_carbon_edge_effect",
        <<"forest_carbon.ForestCarbonEdgeEffect">>,
        <<"fc">>) @@
    "globio" :> _UIMETA("natcap.invest.globio",
        <<"globio.GLOBIO">>,
        <<>>) @@
    "habitat_quality" :> _UIMETA("natcap.invest.habitat_quality",
        <<"habitat_quality.HabitatQuality">>,
        <<"hq">>) @@
    "habitat_risk_assessment" :> _UIMETA("natcap.invest.habitat_risk_assessment.hra",
        <<"hra.HabitatRiskAssessment">>,
        <<"hra">>) @@
    "habitat_risk_assessment_preprocessor" :> _UIMETA("natcap.invest.habitat_risk_assessment.hra_preprocessor",
        <<"hra.HRAPreprocessor">>,
        <<"hra_pre">>) @@
    "hydropower_water_yield" :> _UIMETA("natcap.invest.hydropower.hydropower_water_yield",
        <<"hydropower.HydropowerWaterYield">>,
        <<"hwy">>) @@
    "ndr" :> _UIMETA("natcap.invest.ndr.ndr",
        <<"ndr.Nutrient">>,
        <<>>) @@
    "overlap_analysis" :> _UIMETA("natcap.invest.overlap_analysis.overlap_analysis",
        <<"overlap_analysis.OverlapAnalysis">>,
        <<"oa">>) @@
    "overlap_analysis_mz" :> _UIMETA("natcap.invest.overlap_analysis.overlap_analysis_mz",
        <<"overlap_analysis.OverlapAnalysisMZ">>,
        <<"oa_mz">>) @@
    "pollination" :> _UIMETA("natcap.invest.pollination",
        <<"pollination.Pollination">>,
        <<>>) @@
    "recreation" :> _UIMETA("natcap.invest.recreation.recmodel_client",
        <<"recreation.Recreation">>,
        <<>>) @@
    "routedem" :> _UIMETA("natcap.invest.routing.routedem",
        <<"routing.RouteDEM">>,
        <<>>) @@
    "scenario_generator" :> _UIMETA("natcap.invest.scenario_generator.scenario_generator",
        <<"scenario_gen.ScenarioGenerator">>,
        <<"sg">>) @@
    "scenario_generator_proximity" :> _UIMETA("natcap.invest.scenario_gen_proximity",
        <<"scenario_gen.ScenarioGenProximity">>,
        <<"sgp">>) @@
    "scenic_quality" :> _UIMETA("natcap.invest.scenic_quality.scenic_quality",
        <<"scenic_quality.ScenicQuality">>,
        <<"sq">>) @@
    "sdr" :> _UIMETA("natcap.invest.sdr",
        <<"sdr.SDR">>,
        <<>>) @@
    "seasonal_water_yield" :> _UIMETA("natcap.invest.seasonal_water_yield.seasonal_water_yield",
        <<"seasonal_water_yield.SeasonalWaterYield">>,
        <<"swy">>) @@
    "wind_energy" :> _UIMETA("natcap.invest.wind_energy.wind_energy",
        <<"wind_energy.WindEnergy">>,
        <<>>) @@
    "wave_energy" :> _UIMETA("natcap.invest.wave_energy.wave_energy",
        <<"wave_energy.WaveEnergy">>,
        <<>>) @@
    "habitat_suitability" :> _UIMETA("natcap.invest.habitat_suitability",
        <<>>,
        <<"hs">>)

----------------------------------------------------------------------------
(* Strings *)

(* str.startswith *)
StartsWith(s, prefix) ==
    /\ Len(prefix) <= Len(s)
    /\ SubSeq(s, 1, Len(prefix)) = prefix

(* the characters of the names in use, in code-point order *)
CodePoints == "'./0123456789_abcdefghijklmnopqrstuvwxyz"

Ord(c) == CHOOSE i \in 1..Len(CodePoints) : SubSeq(CodePoints, i, i) = c

RECURSIVE StrLess(_, _)
(* s < t for Python strings: lexicographic by code point *)
StrLess(s, t) ==
    IF Len(t) = 0 THEN FALSE
    ELSE IF Len(s) = 0 THEN TRUE
    ELSE LET a == SubSeq(s, 1, 1)
             b == SubSeq(t, 1, 1)
         IN  IF a = b
             THEN StrLess(SubSeq(s, 2, Len(s)), SubSeq(t, 2, Len(t)))
             ELSE Ord(a) < Ord(b)

RECURSIVE SetToSeq(_)
(* the elements of a finite set, in some order *)
SetToSeq(S) ==
    IF S = {} THEN <<>>
    ELSE LET x == CHOOSE x \in S : TRUE
         IN  <<x>> \o SetToSeq(S \ {x})

(* sorted(iterable of strings) *)
sorted(S) == SortSeq(SetToSeq(S), LAMBDA s, t : StrLess(s, t))

RECURSIVE Join(_, _)
(* sep.join(list of strings) *)
Join(sep, strs) ==
    IF Len(strs) = 0 THEN ""
    ELSE IF Len(strs) = 1 THEN strs[1]
    ELSE strs[1] \o sep \o Join(sep, Tail(strs))

Range(seq) == {seq[i] : i \in 1..Len(seq)}

----------------------------------------------------------------------------
(* Model resolution: SelectModelAction.__call__ *)

list_models(cat) == sorted(DOMAIN cat)

(* the (model, position) pairs at which the catalog declares an alias *)
AliasDecls(cat) ==
    UNION {{<<m, i>> : i \in 1..Len(cat[m].aliases)} : m \in DOMAIN cat}

(* mutant: the alias loop without its assert *)
AliasAssertFails_Never(cat) == FALSE

(* the assert of the alias loop fails: some alias is met a second time *)
AliasAssertFails(cat) ==
    \E d, e \in AliasDecls(cat) :
        /\ d /= e
        /\ cat[d[1]].aliases[d[2]] = cat[e[1]].aliases[e[2]]

(* mutant: the loop stores known_aliases[modelname] = alias *)
known_aliases_Swapped(cat) ==
    IF AliasAssertFails(cat) THEN None
    ELSE Some([m \in {d[1] : d \in AliasDecls(cat)} |->
                cat[m].aliases[Len(cat[m].aliases)]])

(* the map {alias: model} the loop builds; None when the assert fails *)
known_aliases(cat) ==
    IF AliasAssertFails(cat) THEN None
    ELSE Some([a \in {cat[d[1]].aliases[d[2]] : d \in AliasDecls(cat)} |->
                CHOOSE m \in DOMAIN cat : a \in Range(cat[m].aliases)])

(* mutant: the prefix test is an equality test *)
matching_models_Exact(known_models, token) ==
    SelectSeq(known_models, LAMBDA model : model = token)

matching_models(known_models, token) ==
    SelectSeq(known_models, LAMBDA model : StartsWith(model, token))

exact_matches(known_models, token) ==
    SelectSeq(known_models, LAMBDA model : model = token)

(* parser.exit(status, message): the message goes to stderr and the process
   ends through sys.exit(status).  sys.exit of a string prints the string to
   stderr and ends with status 1. *)
ExitInt(status, message) ==
    [code |-> status,
     err  |-> IF message = None THEN <<>> ELSE <<message[1]>>]

ExitStr(status) == [code |-> 1, err |-> <<status>>]

Selected(modelname) == [kind |-> "select", modelname |-> <<modelname>>,
                        exit |-> ExitInt(0, None)]

Exits(kind, exit) == [kind |-> kind, modelname |-> None, exit |-> exit]

UnknownMessage(token) == "Error: '" \o token \o "' not a known model"

AmbiguousMessage(token, matching) ==
    "Model string '" \o token \o "' is ambiguous:\n    "
        \o Join(" ", matching)

(* mutant: no branch for an exact identifier *)
SelectModel_NoExact(known_models, aliases, token) ==
    IF token = None \/ token = Some("")
    THEN Exits("help", ExitInt(0, None))
    ELSE IF aliases = None
    THEN Exits("exit", ExitStr("AssertionError"))
    ELSE LET matching == matching_models(known_models, token[1])
         IN  IF Len(matching) = 1 THEN Selected(matching[1])
             ELSE IF token[1] \in DOMAIN aliases[1]
                  THEN Selected(aliases[1][token[1]])
             ELSE IF Len(matching) = 0
                  THEN Exits("exit", ExitStr(UnknownMessage(token[1])))
             ELSE Exits("exit",
                        ExitStr(AmbiguousMessage(token[1], matching)))

(* mutant: several prefix matches are reported before the exact identifier
   and the alias are tried *)
SelectModel_AmbiguityFirst(known_models, aliases, token) ==
    IF token = None \/ token = Some("")
    THEN Exits("help", ExitInt(0, None))
    ELSE IF aliases = None
    THEN Exits("exit", ExitStr("AssertionError"))
    ELSE LET matching == matching_models(known_models, token[1])
             exact    == exact_matches(known_models, token[1])
         IN  IF Len(matching) = 1 THEN Selected(matching[1])
             ELSE IF Len(matching) > 1
                  THEN Exits("exit",
                             ExitStr(AmbiguousMessage(token[1], matching)))
             ELSE IF Len(exact) = 1 THEN Selected(exact[1])
             ELSE IF token[1] \in DOMAIN aliases[1]
                  THEN Selected(aliases[1][token[1]])
             ELSE Exits("exit", ExitStr(UnknownMessage(token[1])))

(* mutant: the two error branches are exchanged *)
SelectModel_SwappedErrors(known_models, aliases, token) ==
    IF token = None \/ token = Some("")
    THEN Exits("help", ExitInt(0, None))
    ELSE IF aliases = None
    THEN Exits("exit", ExitStr("AssertionError"))
    ELSE LET matching == matching_models(known_models, token[1])
             exact    == exact_matches(known_models, token[1])
         IN  IF Len(matching) = 1 THEN Selected(matching[1])
             ELSE IF Len(exact) = 1 THEN Selected(exact[1])
             ELSE IF token[1] \in DOMAIN aliases[1]
                  THEN Selected(aliases[1][token[1]])
             ELSE IF Len(matching) /= 0
                  THEN Exits("exit", ExitStr(UnknownMessage(token[1])))
             ELSE Exits("exit",
                        ExitStr(AmbiguousMessage(token[1], matching)))

(* mutant: the ambiguity message lists every known model *)
SelectModel_ListsKnown(known_models, aliases, token) ==
    IF token = None \/ token = Some("")
    THEN Exits("help", ExitInt(0, None))
    ELSE IF aliases = None
    THEN Exits("exit", ExitStr("AssertionError"))
    ELSE LET matching == matching_models(known_models, token[1])
             exact    == exact_matches(known_models, token[1])
         IN  IF Len(matching) = 1 THEN Selected(matching[1])
             ELSE IF Len(exact) = 1 THEN Selected(exact[1])
             ELSE IF token[1] \in DOMAIN aliases[1]
                  THEN Selected(aliases[1][token[1]])
             ELSE IF Len(matching) = 0
                  THEN Exits("exit", ExitStr(UnknownMessage(token[1])))
             ELSE Exits("exit",
                        ExitStr(AmbiguousMessage(token[1], known_models)))

(* mutant: only an absent token shows the help, '' is resolved *)
SelectModel_NoneOnly(known_models, aliases, token) ==
    IF token = None
    THEN Exits("help", ExitInt(0, None))
    ELSE IF aliases = None
    THEN Exits("exit", ExitStr("AssertionError"))
    ELSE LET matching == matching_models(known_models, token[1])
             exact    == exact_matches(known_models, token[1])
         IN  IF Len(matching) = 1 THEN Selected(matching[1])
             ELSE IF Len(exact) = 1 THEN Selected(exact[1])
             ELSE IF token[1] \in DOMAIN aliases[1]
                  THEN Selected(aliases[1][token[1]])
             ELSE IF Len(matching) = 0
                  THEN Exits("exit", ExitStr(UnknownMessage(token[1])))
             ELSE Exits("exit",
                        ExitStr(AmbiguousMessage(token[1], matching)))

(* the body of SelectModelAction.__call__ for a token, given the values of
   list_models() and of the alias loop *)
SelectModel(known_models, aliases, token) ==
    IF token = None \/ token = Some("")
    THEN Exits("help", ExitInt(0, None))
    ELSE IF aliases = None
    THEN Exits("exit", ExitStr("AssertionError"))
    ELSE LET matching == matching_models(known_models, token[1])
             exact    == exact_matches(known_models, token[1])
         IN  IF Len(matching) = 1 THEN Selected(matching[1])
             ELSE IF Len(exact) = 1 THEN Selected(exact[1])
             ELSE IF token[1] \in DOMAIN aliases[1]
                  THEN Selected(aliases[1][token[1]])
             ELSE IF Len(matching) = 0
                  THEN Exits("exit", ExitStr(UnknownMessage(token[1])))
             ELSE Exits("exit",
                        ExitStr(AmbiguousMessage(token[1], matching)))

(* One usage line per model, as format_models() builds them *)
RECURSIVE Spaces(_)
Spaces(n) == IF n <= 0 THEN "" ELSE " " \o Spaces(n - 1)

(* str.ljust *)
ljust(s, width) == s \o Spaces(width - Len(s))

Max(S) == CHOOSE m \in S : \A o \in S : o <= m

format_models(cat) ==
    LET model_names == list_models(cat)
        max_model_name_length == Max({Len(name) : name \in DOMAIN cat})
        max_alias_name_length ==
            Max({Len(Join(", ", cat[m].aliases)) : m \in DOMAIN cat})
        line(model_name) ==
            LET usage_string ==
                    IF cat[model_name].gui /= None THEN ""
                    ELSE "(No GUI available)"
                joined == Join(", ", cat[model_name].aliases)
                alias_string ==
                    IF joined /= "" THEN "(" \o joined \o ")" ELSE joined
            IN  "    " \o ljust(model_name, max_model_name_length) \o " "
                    \o ljust(alias_string, max_alias_name_length) \o "   "
                    \o usage_string
    IN  [i \in 1..Len(model_names) |-> line(model_names[i])]

----------------------------------------------------------------------------
(* Bounds and the inputs drawn for a run *)

(* answers that are neither 'y' nor 'n' which one run may give the prompt *)
MaxBadResponses == 2

Prefixes(s) == {SubSeq(s, 1, n) : n \in 1..Len(s)}

AliasNames(cat) == {cat[d[1]].aliases[d[2]] : d \in AliasDecls(cat)}

(* the tokens tried: every non-empty prefix of every identifier and alias,
   each identifier and alias with a character appended, a token that matches
   nothing, and the empty string *)
Tokens(cat) ==
    LET names == DOMAIN cat \cup AliasNames(cat)
    IN  UNION {Prefixes(n) : n \in names}
            \cup {n \o "x" : n \in names}
            \cup {"xyz_not_real", ""}

cwd == "/home/user"

WorkspaceFlags == {None, Some(""), Some("ws"), Some("/data/ws")}

ScenarioFlags == {None, Some("scenario.json")}

(* what read_parameter_set may return for the scenario file *)
ParamSets ==
    LET base == ("lulc_path" :> "lulc.tif")
    IN  {[name |-> "scenario", args |-> a] :
            a \in {base,
                   base @@ ("workspace_dir" :> "/data/pws"),
                   base @@ ("workspace_dir" :> "ws")}}

Environments ==
    {{}, {cwd}, {"/data/pws"}, {"/home/user/ws", "/data/ws"}}

Responses == {"y", "n", "yes"}

----------------------------------------------------------------------------
(* Paths and dictionaries *)

isabs(path) == Len(path) > 0 /\ SubSeq(path, 1, 1) = "/"

(* os.path.abspath for the paths in use (none has '.' or '..' parts) *)
abspath(path) ==
    IF isabs(path) THEN path
    ELSE IF path = "" THEN cwd
    ELSE cwd \o "/" \o path

(* os.path.exists(path) and len(os.listdir(path)) > 0 *)
ExistsNonEmpty(dirs, path) == path /= "" /\ abspath(path) \in dirs

(* d[key] = value *)
SetItem(d, key, value) ==
    [k \in DOMAIN d \cup {key} |-> IF k = key THEN value ELSE d[k]]

(* argparse 'store_true': the flag stores True, its absence the default *)
StoreTrue(given, default) == IF given THEN TRUE ELSE default

Call(fn, arg) == [fn |-> fn, arg |-> arg]

----------------------------------------------------------------------------
(* natcap/invest/scenarios.py: values of a parameters dictionary.  A Python
   value is the pair of its class and its content; the content of a dict is
   a function from its keys, that of a list a sequence. *)

Py(class, content) == <<class, content>>

Class(value) == value[1]

Content(value) == value[2]

PyStr(s) == Py("str", s)

PyUnicode(s) == Py("unicode", s)

(* the content of a number is its decimal numeral *)
PyInt(n) == Py("int", ToString(n))

PyNone == Py("NoneType", "None")

PyDict(d) == Py("dict", d)

PyList(items) == Py("list", items)

EmptyDict == [k \in {} |-> PyNone]

(* json.dumps: the JSON text of a value, as its syntax tree *)
RECURSIVE dumps(_)
dumps(value) ==
    IF Class(value) = "dict"
    THEN Py("object",
            [k \in DOMAIN Content(value) |-> dumps(Content(value)[k])])
    ELSE IF Class(value) = "list"
    THEN Py("array",
            [i \in 1..Len(Content(value)) |-> dumps(Content(value)[i])])
    ELSE IF Class(value) \in {"str", "unicode"}
    THEN Py("string", Content(value))
    ELSE IF Class(value) = "int"
    THEN Py("number", Content(value))
    ELSE Py("null", "null")

(* json.load: every JSON string comes back as a unicode object *)
RECURSIVE load(_)
load(json) ==
    IF Class(json) = "object"
    THEN PyDict([k \in DOMAIN Content(json) |-> load(Content(json)[k])])
    ELSE IF Class(json) = "array"
    THEN PyList([i \in 1..Len(Content(json)) |-> load(Content(json)[i])])
    ELSE IF Class(json) = "string"
    THEN PyUnicode(Content(json))
    ELSE IF Class(json) = "number"
    THEN Py("int", Content(json))
    ELSE PyNone

----------------------------------------------------------------------------
(* The file system.  An entry of the disk is a file, a dataset or a
   directory with what it holds; its content stands for its bytes. *)

Entry(kind, content) == [kind |-> kind, content |-> content]

RECURSIVE LastSlash(_, _)
LastSlash(path, i) ==
    IF i = 0 THEN 0
    ELSE IF SubSeq(path, i, i) = "/" THEN i
    ELSE LastSlash(path, i - 1)

(* os.path.basename *)
basename(path) == SubSeq(path, LastSlash(path, Len(path)) + 1, Len(path))

(* os.path.join(a, b): an absolute b discards a *)
join(a, b) == IF isabs(b) THEN b ELSE a \o "/" \o b

(* the path ends with a separator that is not the whole of it *)
TrailingSlash(path) ==
    Len(path) > 1 /\ SubSeq(path, Len(path), Len(path)) = "/"

(* os.path.exists, os.path.isfile, os.path.isdir; a path with a trailing
   separator exists when it names a directory *)
exists(fs, path) ==
    /\ path /= ""
    /\ IF TrailingSlash(abspath(path))
       THEN LET dir == SubSeq(abspath(path), 1, Len(abspath(path)) - 1)
            IN  dir \in DOMAIN fs /\ fs[dir].kind = "dir"
       ELSE abspath(path) \in DOMAIN fs

KindOf(fs, path) ==
    IF exists(fs, path) THEN fs[abspath(path)].kind ELSE "missing"

isfile(fs, path) == KindOf(fs, path) \in {"file", "csv", "raster", "vector"}

isdir(fs, path) == KindOf(fs, path) = "dir"

(* gdal.Open(path) returns a dataset *)
IsRaster(fs, path) == KindOf(fs, path) = "raster"

(* ogr.Open(path) returns a datasource; its driver's name *)
IsVector(fs, path) == KindOf(fs, path) \in {"vector", "csv"}

DriverName(fs, path) ==
    IF KindOf(fs, path) = "csv" THEN "CSV" ELSE "ESRI Shapefile"

(* the path is below the directory *)
Below(dir, path) == StartsWith(path, dir \o "/")

(* the path relative to the directory it is below *)
relpath(dir, path) == SubSeq(path, Len(dir) + 2, Len(path))

(* tempfile.mkdtemp(prefix, dir): a directory name not in use, here the
   prefix and the number of the temporary directory *)
mkdtemp(prefix, dir, n) == dir \o "/" \o prefix \o ToString(n)

gettempdir == "/tmp"

(* the six characters drawn after random.seed(seed_string) are a function
   of the seed alone; they are written as the seed *)
make_random_dir(root, seed_string, prefix) ==
    join(root, prefix \o seed_string)

(* the files the parameters may name *)
SourceDisk ==
    ("/data/lulc.tif" :> Entry("raster", "lulc"))
    @@ ("/data/aoi.shp" :> Entry("vector", "aoi"))
    @@ ("/data/table.csv" :> Entry("csv", "table"))
    @@ ("/data/a/params.txt" :> Entry("file", "params of a"))
    @@ ("/data/b/params.txt" :> Entry("file", "params of b"))
    @@ ("/home/user/notes.txt" :> Entry("file", "notes"))
    @@ (cwd :> Entry("dir", "home"))
    @@ ("/data/samples" :> Entry("dir", "samples"))
    @@ ("/data/ws" :> Entry("dir", "outputs"))

----------------------------------------------------------------------------
(* collect_parameters and its nested functions.  The walk over the
   parameters threads a record st through the calls: the disk, the
   dictionary files_found, the copies made so far (source and destination),
   the number of temporary directories made, and the exception that ended
   the walk (None while it goes on). *)

Walk(fs, found, n) ==
    [disk |-> fs, files_found |-> found, copies |-> <<>>, ntemp |-> n,
     raised |-> None]

Copied(st, src, dst) ==
    [st EXCEPT !.disk = SetItem(@, dst, st.disk[src]),
               !.copies = Append(@, [src |-> src, dst |-> dst])]

(* driver.CreateCopy(name, src): the binding takes a dataset for src and
   raises TypeError for anything else *)
CreateCopyRaises(src) == Class(src) /= "Dataset"

(* a new folder under data_dir, then CreateCopy(new_path, new_path) *)
get_multi_part_gdal(filepath, st, data_dir) ==
    LET new_path == mkdtemp("raster_", data_dir, st.ntemp + 1)
        made == [st EXCEPT !.disk = SetItem(@, new_path, Entry("dir", "")),
                           !.ntemp = @ + 1]
    IN  IF CreateCopyRaises(PyStr(new_path))
        THEN [path |-> None, st |-> made, type_error |-> TRUE]
        ELSE [path |-> Some(new_path),
              st |-> Copied(made, abspath(filepath), new_path),
              type_error |-> FALSE]

(* a new folder under data_dir, then driver.CopyDataSource(vector, new_path) *)
get_multi_part_ogr(filepath, st, data_dir) ==
    LET new_path == mkdtemp("vector_", data_dir, st.ntemp + 1)
        made == [st EXCEPT !.ntemp = @ + 1]
    IN  [path |-> Some(new_path),
         st |-> Copied(made, abspath(filepath), new_path),
         type_error |-> FALSE]

get_multi_part(filepath, st, data_dir) ==
    IF IsRaster(st.disk, filepath)
    THEN get_multi_part_gdal(filepath, st, data_dir)
    ELSE IF IsVector(st.disk, filepath)
            /\ DriverName(st.disk, filepath) /= "CSV"
    THEN get_multi_part_ogr(filepath, st, data_dir)
    ELSE [path |-> None, st |-> st, type_error |-> FALSE]

Returned(value, st) == [ret |-> value, st |-> st]

Raised(parameter, st, exception) ==
    [ret |-> parameter, st |-> [st EXCEPT !.raised = Some(exception)]]

(* files_found[os.path.abspath(parameter)] = return_path *)
Found(parameter, return_path, st) ==
    Returned(return_path,
        [st EXCEPT !.files_found =
            SetItem(@, abspath(Content(parameter)), return_path)])

(* mutant: the dictionary of the files found is never consulted *)
AlreadyFound_Never(st, key) == FALSE

(* files_found[os.path.abspath(parameter)] does not raise KeyError *)
AlreadyFound(st, key) == key \in DOMAIN st.files_found

(* get_if_file(parameter): the staged path of the file, folder or dataset
   the string names, else the string itself *)
get_if_file(parameter, st, temp_workspace) ==
    LET key == abspath(Content(parameter))
        data_dir == join(temp_workspace, "data")
        multi_part_folder == get_multi_part(Content(parameter), st, data_dir)
        new_filename == basename(Content(parameter))
        new_foldername ==
            make_random_dir(temp_workspace, basename(Content(parameter)), "data_")
    IN  IF AlreadyFound(st, key)
        THEN Returned(st.files_found[key], st)
        ELSE IF multi_part_folder.type_error
        THEN Returned(parameter, multi_part_folder.st)
        ELSE IF multi_part_folder.path /= None
        THEN Found(parameter, PyStr(multi_part_folder.path[1]),
                   multi_part_folder.st)
        ELSE IF isfile(st.disk, Content(parameter))
        THEN IF isdir(st.disk, join(temp_workspace, new_filename))
             THEN Raised(parameter, st, "IOError")
             ELSE Found(parameter, Py(Class(parameter), new_filename),
                        Copied(st, key, join(temp_workspace, new_filename)))
        ELSE IF isdir(st.disk, Content(parameter))
        THEN IF exists(st.disk, new_foldername)
             THEN Raised(parameter, st, "OSError")
             ELSE Found(parameter, PyStr(new_foldername),
                        Copied(st, key, new_foldername))
        ELSE Returned(parameter, st)

(* mutant: the empty string is joined like any other *)
_get_if_uri_EmptyJoined(parameter, st, input_folder) ==
    LET temp_file_path == join(input_folder, Content(parameter))
    IN  IF exists(st.disk, temp_file_path)
        THEN Returned(Py(Class(parameter), temp_file_path), st)
        ELSE Returned(parameter, st)

(* _get_if_uri(parameter) of extract_parameters_archive *)
_get_if_uri(parameter, st, input_folder) ==
    LET temp_file_path == join(input_folder, Content(parameter))
    IN  IF exists(st.disk, temp_file_path) /\ ~(Len(Content(parameter)) = 0)
        THEN Returned(Py(Class(parameter), temp_file_path), st)
        ELSE Returned(parameter, st)

(* types[value.__class__](value) for the functions of types_lookup *)
Apply(fn, value, st, root) ==
    IF fn = "get_if_file" THEN get_if_file(value, st, root)
    ELSE _get_if_uri(value, st, root)

(* dict.iteritems(): the keys of the dictionary in the order of the run *)
Keys(d, order) == SelectSeq(order, LAMBDA k : k \in DOMAIN d)

RECURSIVE format_value(_, _, _, _, _)
RECURSIVE format_dict(_, _, _, _, _, _, _)
RECURSIVE format_list(_, _, _, _, _, _)

(* new_dict[key] = types[value.__class__](value), for the keys left *)
format_dict(parameter, keys, new_dict, fn, root, order, st) ==
    IF keys = <<>> \/ st.raised /= None
    THEN Returned(PyDict(new_dict), st)
    ELSE LET r == format_value(parameter[Head(keys)], fn, root, order, st)
         IN  format_dict(parameter, Tail(keys),
                         SetItem(new_dict, Head(keys), r.ret),
                         fn, root, order, r.st)

(* new_list.append(types[item.__class__](item)), for the items left *)
format_list(items, new_list, fn, root, order, st) ==
    IF items = <<>> \/ st.raised /= None
    THEN Returned(PyList(new_list), st)
    ELSE LET r == format_value(Head(items), fn, root, order, st)
         IN  format_list(Tail(items), Append(new_list, r.ret),
                         fn, root, order, r.st)

(* the lookup in types: dict, list, the classes of types_lookup (str and
   unicode); any other class is a KeyError and the value is kept *)
format_value(value, fn, root, order, st) ==
    IF Class(value) = "dict"
    THEN format_dict(Content(value), Keys(Content(value), order), EmptyDict, fn, root,
                     order, st)
    ELSE IF Class(value) = "list"
    THEN format_list(Content(value), <<>>, fn, root, order, st)
    ELSE IF Class(value) \in {"str", "unicode"}
    THEN Apply(fn, value, st, root)
    ELSE Returned(value, st)

format_dictionary(input_dict, fn, root, order, st) ==
    format_dict(input_dict, Keys(input_dict, order), EmptyDict, fn, root,
                order, st)

(* mutant: no ignored key is restored *)
IgnoredKeys_Dropped ==
    <<[key |-> "workspace_dir", restore_key |-> FALSE],
      [key |-> "suffix", restore_key |-> FALSE],
      [key |-> "results_suffix", restore_key |-> FALSE]>>

(* the keys collect_parameters ignores, each with its restore_key flag *)
IgnoredKeys ==
    <<[key |-> "workspace_dir", restore_key |-> FALSE],
      [key |-> "suffix", restore_key |-> TRUE],
      [key |-> "results_suffix", restore_key |-> TRUE]>>

(* mutant: the dictionary outlives the call *)
InitialFilesFound_Kept(earlier_calls) ==
    IF earlier_calls = <<>> THEN EmptyDict
    ELSE earlier_calls[Len(earlier_calls)].files_found

(* files_found = {} *)
InitialFilesFound(earlier_calls) == EmptyDict

(* mutant: the name is bound to the caller's dictionary itself *)
dict_copy_Aliased(parameters) == [dict |-> parameters, shared |-> TRUE]

(* parameters.copy(): a new dictionary with the entries of the caller's;
   `shared` tells whether a change of it is a change of the caller's *)
dict_copy(parameters) == [dict |-> parameters, shared |-> FALSE]

(* mutant: the destination is taken as the base name as it is *)
StripExtension_Kept(archive_uri) == archive_uri

(* archive_uri without a trailing '.tar.gz' *)
StripExtension(archive_uri) ==
    IF Len(archive_uri) >= Len(".tar.gz")
       /\ SubSeq(archive_uri, Len(archive_uri) - Len(".tar.gz") + 1,
                 Len(archive_uri)) = ".tar.gz"
    THEN SubSeq(archive_uri, 1, Len(archive_uri) - Len(".tar.gz"))
    ELSE archive_uri

(* what is below the directory, by its path relative to the directory *)
Members(fs, dir) ==
    [p \in {relpath(dir, q) : q \in {x \in DOMAIN fs : Below(dir, x)}}
        |-> fs[join(dir, p)]]

(* shutil.make_archive(base_name, 'gztar', root_dir): the archive file and
   what it holds *)
make_archive(base_name, root_dir, fs, docs) ==
    [path |-> abspath(base_name \o ".tar.gz"),
     files |-> Members(fs, root_dir),
     docs |-> Members(docs, root_dir)]

(* collect_parameters(parameters, archive_uri), run on the disk, documents
   and archives of `world` after `earlier_calls`, its dictionaries iterated
   in `order`: the world it leaves and the record of the call, with the
   caller's dictionary as the call leaves it *)
collect_parameters(parameters, archive_uri, order, world, earlier_calls) ==
    LET temp_workspace == mkdtemp("scenario_", gettempdir, world.ntemp + 1)
        data_dir == join(temp_workspace, "data")
        made == SetItem(SetItem(world.disk, temp_workspace, Entry("dir", "")),
                        data_dir, Entry("dir", ""))
        ignored == {IgnoredKeys[i].key : i \in DOMAIN IgnoredKeys}
        ignored_keys ==
            {IgnoredKeys[i].key : i \in {j \in DOMAIN IgnoredKeys :
                /\ IgnoredKeys[j].restore_key
                /\ IgnoredKeys[j].key \in DOMAIN parameters}}
        own == dict_copy(parameters)
        copy == [k \in DOMAIN own.dict \ ignored |-> own.dict[k]]
        walked == format_dictionary(copy, "get_if_file", temp_workspace,
                    order, Walk(made, InitialFilesFound(earlier_calls),
                                world.ntemp + 1))
        new_args == [k \in DOMAIN Content(walked.ret) \cup ignored_keys |->
                        IF k \in ignored_keys THEN parameters[k]
                        ELSE Content(walked.ret)[k]]
        param_file_uri == join(temp_workspace, "parameters.json")
        written == SetItem(walked.st.disk, param_file_uri,
                           Entry("file", "json"))
        docs == SetItem(world.documents, param_file_uri,
                        dumps(PyDict(new_args)))
        archive == make_archive(StripExtension(archive_uri), temp_workspace,
                                written, docs)
        call == [parameters |-> parameters,
                 caller |-> IF own.shared THEN copy ELSE parameters,
                 archive_uri |-> archive_uri,
                 temp_workspace |-> temp_workspace,
                 files_found |-> walked.st.files_found,
                 copies |-> walked.st.copies,
                 raised |-> walked.st.raised,
                 new_args |-> EmptyDict,
                 archive |-> None]
    IN  IF walked.st.raised /= None
        THEN [world |-> [world EXCEPT !.disk = walked.st.disk,
                                      !.ntemp = walked.st.ntemp],
              call |-> call]
        ELSE [world |-> [disk |-> written,
                         documents |-> docs,
                         archives |-> SetItem(world.archives, archive.path,
                                        [files |-> archive.files,
                                         docs |-> archive.docs]),
                         ntemp |-> walked.st.ntemp],
              call |-> [call EXCEPT !.new_args = new_args,
                                    !.archive = Some(archive.path)]]

(* archive.extractall(workspace_dir): the members written below the folder *)
extract_archive(workspace_dir, members, fs) ==
    [p \in DOMAIN fs \cup {join(workspace_dir, m) : m \in DOMAIN members} |->
        IF Below(workspace_dir, p)
           /\ relpath(workspace_dir, p) \in DOMAIN members
        THEN members[relpath(workspace_dir, p)]
        ELSE fs[p]]

(* mutant: a workspace_dir of the parameters document is kept *)
ForceWorkspace_Default(formatted_args, workspace_dir) ==
    IF "workspace_dir" \in DOMAIN formatted_args THEN formatted_args
    ELSE SetItem(formatted_args, "workspace_dir", PyStr(workspace_dir))

(* formatted_args[u'workspace_dir'] = workspace_dir *)
ForceWorkspace(formatted_args, workspace_dir) ==
    SetItem(formatted_args, "workspace_dir", PyStr(workspace_dir))

(* extract_parameters_archive(workspace_dir, archive_uri, input_folder):
   the world it leaves and the dictionary it returns *)
extract_parameters_archive(workspace_dir, archive_uri, input_folder, order, world) ==
    LET made == input_folder = None
        folder == IF made
                  THEN mkdtemp("tmp", gettempdir, world.ntemp + 1)
                  ELSE input_folder[1]
        ntemp1 == IF made THEN world.ntemp + 1 ELSE world.ntemp
        disk1 == IF folder \in DOMAIN world.disk THEN world.disk
                 ELSE SetItem(world.disk, folder, Entry("dir", ""))
        archive == world.archives[abspath(archive_uri)]
        disk2 == extract_archive(folder, archive.files, disk1)
        docs == extract_archive(folder, archive.docs, world.documents)
        parameters_json == join(folder, "parameters.json")
        arguments_dict == load(docs[parameters_json])
        formatted_args ==
            Content(format_dictionary(Content(arguments_dict), "_get_if_uri",
                        folder, order, Walk(disk2, EmptyDict, ntemp1)).ret)
    IN  IF abspath(archive_uri) \notin DOMAIN world.archives
        THEN [world |-> [world EXCEPT !.disk = disk1, !.ntemp = ntemp1],
              folder |-> folder, raised |-> Some("IOError"),
              args |-> EmptyDict]
        ELSE IF parameters_json \notin DOMAIN docs
        THEN [world |-> [world EXCEPT !.disk = disk2, !.documents = docs,
                                      !.ntemp = ntemp1],
              folder |-> folder, raised |-> Some("IOError"),
              args |-> EmptyDict]
        ELSE [world |-> [world EXCEPT !.disk = disk2, !.documents = docs,
                                      !.ntemp = ntemp1],
              folder |-> folder, raised |-> None,
              args |-> ForceWorkspace(formatted_args, workspace_dir)]

----------------------------------------------------------------------------
(* The calls made to the archiver and to the extractor *)

MaxArchives == 2

(* values of the parameter 'a' *)
Values ==
    {PyStr(s) : s \in {"/data/lulc.tif", "/data/aoi.shp", "/data/table.csv",
                       "/data/a/params.txt", "notes.txt", "/data/samples",
                       "/missing.tif", "plain", "data", ""}}
    \cup {PyInt(5), PyNone}

(* values below the parameter 'b' *)
NestedValues ==
    {PyStr(s) : s \in {"/data/a/params.txt", "/data/b/params.txt",
                       "/home/user/notes.txt", cwd}}

(* the reserved keys of a parameters dictionary *)
ReservedParameters ==
    {EmptyDict,
     ("workspace_dir" :> PyStr("/data/ws")) @@ ("results_suffix" :> PyStr("x")),
     ("workspace_dir" :> PyStr("/data/samples"))
        @@ ("suffix" :> PyStr("/data/a/params.txt"))}

(* the parameters dictionaries archived *)
ParameterDicts ==
    {r @@ ("a" :> x) : r \in ReservedParameters, x \in Values}
    \cup {r @@ ("a" :> x) @@ ("b" :> y) :
            r \in ReservedParameters, x \in Values,
            y \in NestedValues
                \cup {PyDict("c" :> z) : z \in NestedValues}
                \cup {PyList(<<z, w>>) : z \in NestedValues, w \in NestedValues}}

(* the orders in which a run may iterate over the keys of a dictionary *)
KeyOrders ==
    {<<"a", "b", "c", "workspace_dir", "suffix", "results_suffix">>,
     <<"b", "a", "c", "workspace_dir", "suffix", "results_suffix">>}

ArchiveURIs == {"/out/scenario.tar.gz", "/out/other"}

TargetWorkspaces == {"/data/ws", "/new/ws"}

InputFolders == {None, Some("/home/user/inputs")}

(* an archive that was not written by this process *)
ForeignArchives ==
    "/in/old.tar.gz" :>
        [files |-> ("parameters.json" :> Entry("file", "json"))
                    @@ ("lulc.tif" :> Entry("raster", "old lulc")),
         docs |-> ("parameters.json" :> dumps(PyDict(
                    ("workspace_dir" :> PyStr("/old/ws"))
                    @@ ("a" :> PyStr("lulc.tif"))
                    @@ ("b" :> PyInt(5)))))]

NoArchiving ==
    /\ scenario_args = EmptyDict
    /\ disk = SourceDisk
    /\ documents = EmptyDict
    /\ archives = ForeignArchives
    /\ ntemp = 0
    /\ archived = <<>>
    /\ extracted = None

----------------------------------------------------------------------------
(* natcap/invest/pollination.py: the file registry of execute.  A filename
   pattern is the text before and the text after the place of the suffix. *)

Pattern(pre, post) == <<pre, post>>

Substitute(pattern, suffix) == pattern[1] \o suffix \o pattern[2]

NoTemplates == [k \in {} |-> Pattern("", "")]

_OUTPUT_BASE_FILES == NoTemplates

_INTERMEDIATE_BASE_FILES == NoTemplates

_TMP_BASE_FILES == NoTemplates

(* utils.make_suffix_string(args, suffix_key): the empty string, or the
   suffix with a leading '_' *)
make_suffix_string(model_args, suffix_key) ==
    IF suffix_key \notin DOMAIN model_args \/ model_args[suffix_key] = ""
    THEN ""
    ELSE IF StartsWith(model_args[suffix_key], "_")
    THEN model_args[suffix_key]
    ELSE "_" \o model_args[suffix_key]

(* mutant: no symbolic name counts as a duplicate *)
DuplicateKeys_None(templates, registry) == {}

(* the symbolic names of the mapping that the registry holds already *)
DuplicateKeys(templates, registry) == DOMAIN templates \cap DOMAIN registry

(* the groups left are merged into the registry; the first group with a
   name the registry holds ends the construction *)
RECURSIVE merge_groups(_, _, _)
merge_groups(registry_groups, suffix, registry) ==
    IF registry_groups = <<>>
    THEN [offending |-> {}, registry |-> Some(registry)]
    ELSE LET templates == Head(registry_groups)[1]
             directory == Head(registry_groups)[2]
             paths == [k \in DOMAIN templates |->
                        join(directory, Substitute(templates[k], suffix))]
         IN  IF DuplicateKeys(templates, registry) /= {}
             THEN [offending |-> DuplicateKeys(templates, registry),
                   registry |-> None]
             ELSE merge_groups(Tail(registry_groups), suffix,
                               paths @@ registry)

(* utils.build_file_registry(registry_groups, suffix): the registry, or the
   names of which one is reported as the duplicate key *)
build_file_registry(registry_groups, suffix) ==
    merge_groups(registry_groups, suffix, [k \in {} |-> ""])

(* the symbolic names and the mappings of names to patterns drawn *)
SymbolicNames == {"yield", "mask", "sum"}

TemplateMappings ==
    {[k \in names |-> Pattern(k, ".tif")] : names \in SUBSET SymbolicNames}

ShippedBaseFiles ==
    [output |-> _OUTPUT_BASE_FILES,
     intermediate |-> _INTERMEDIATE_BASE_FILES,
     tmp |-> _TMP_BASE_FILES]

PollinationArgs ==
    {[k \in {"workspace_dir"} |-> w] : w \in {"/data/ws", "/new/ws"}}
    \cup {("workspace_dir" :> w) @@ ("results_suffix" :> x) :
            w \in {"/data/ws", "/new/ws"}, x \in {"", "x", "_x"}}

NoRegistry ==
    /\ base_files = ShippedBaseFiles
    /\ pollination_args = [k \in {"workspace_dir"} |-> "/data/ws"]
    /\ f_reg = None

----------------------------------------------------------------------------
(* The process *)

NoOptions ==
    [headless |-> FALSE, scenario |-> None, workspace |-> None,
     quickrun |-> FALSE, overwrite |-> FALSE, no_validate |-> FALSE]

ArgsDefault ==
    [model |-> None, list |-> FALSE, headless |-> FALSE, scenario |-> None,
     workspace |-> None, quickrun |-> FALSE, overwrite |-> FALSE,
     validate |-> TRUE]

InitProcess ==
    /\ pc = "parse_args"
    /\ argv = NoOptions
    /\ values = None
    /\ args = ArgsDefault
    /\ log_configured = FALSE
    /\ paramset = None
    /\ workspace = None
    /\ prompts = 0
    /\ user_response = None
    /\ calls = <<>>
    /\ log = <<>>
    /\ stdout = <<>>
    /\ stderr = <<>>
    /\ exit_code = None
    /\ ui_installed \in BOOLEAN
    /\ isatty \in BOOLEAN
    /\ nonempty_dirs \in Environments

Init ==
    /\ model_uis = _MODEL_UIS
    /\ InitProcess
    /\ NoArchiving
    /\ NoRegistry

(* main() calls neither the archiver nor the extractor *)
scenario_files == <<scenario_args, disk, documents, archives, ntemp, archived,
                    extracted>>

(* the model is run by the collaborator `execute` of the calls *)
registry_files == <<base_files, pollination_args, f_reg>>

env == <<model_uis, ui_installed, isatty, nonempty_dirs, scenario_files,
         registry_files>>

(* sys.argv is only read, except by the action that draws it *)
fixed == <<env, argv>>

(* sys.exit after the given text went to stderr *)
Exit(code, err) ==
    /\ pc' = "exited"
    /\ exit_code' = Some(code)
    /\ stderr' = stderr \o err

(* an exception nobody catches ends the process with a traceback *)
Raise(exception) ==
    /\ pc' = "raised"
    /\ exit_code' = Some(1)
    /\ stderr' = Append(stderr, exception)

(* --list comes first on the command line *)
ListModelsAction ==
    /\ pc = "parse_args"
    /\ args' = [args EXCEPT !.list = TRUE]
    /\ Exit(0, <<Join("\n", format_models(model_uis)) \o "\n">>)
    /\ UNCHANGED <<fixed, values, log_configured, paramset, workspace, prompts, user_response,
                   calls, log, stdout>>

(* the positional argument `model`, given or not *)
SelectModelAction ==
    /\ pc = "parse_args"
    /\ \E known_models \in {list_models(model_uis)},
          aliases \in {known_aliases(model_uis)},
          token \in {None} \cup {Some(t) : t \in Tokens(model_uis)} :
        LET r == SelectModel(known_models, aliases, token)
        IN  /\ values' = token
            /\ IF r.kind = "select"
               THEN /\ args' = [args EXCEPT !.model = r.modelname]
                    /\ pc' = "parse_options"
                    /\ UNCHANGED <<stdout, stderr, exit_code>>
               ELSE IF r.kind = "help"
               THEN /\ stdout' = stdout \o
                        <<"usage: invest",
                          Join("\n", format_models(model_uis))>>
                    /\ Exit(r.exit.code, r.exit.err)
                    /\ UNCHANGED args
               ELSE /\ Exit(r.exit.code, r.exit.err)
                    /\ UNCHANGED <<args, stdout>>
    /\ UNCHANGED <<fixed, log_configured, paramset, workspace, prompts, user_response, calls,
                   log>>

(* --list comes after the model token: the two are mutually exclusive and
   parse_args() ends with a usage error before ListModelsAction is called *)
ListConflict ==
    /\ pc = "parse_options"
    /\ values' = None
    /\ Exit(2, <<"usage: invest",
                 "invest: error: argument --list: not allowed with argument model\n">>)
    /\ UNCHANGED <<fixed, args, log_configured, paramset, workspace, prompts, user_response,
                   calls, log, stdout>>

(* the command lines drawn give the gui option only to a GUI run and the
   headless options only to a headless run: the other branch reads neither *)
OptionsRead(headless, quickrun, overwrite, no_validate) ==
    IF headless THEN ~quickrun ELSE ~overwrite /\ ~no_validate

(* the remaining options of the command line, then parse_args() returns *)
StoreOptions ==
    /\ pc = "parse_options"
    /\ \E headless \in BOOLEAN, scenario \in ScenarioFlags,
          w \in WorkspaceFlags, quickrun \in BOOLEAN, overwrite \in BOOLEAN,
          no_validate \in BOOLEAN :
        /\ OptionsRead(headless, quickrun, overwrite, no_validate)
        /\ argv' = [headless |-> headless, scenario |-> scenario,
                    workspace |-> w, quickrun |-> quickrun,
                    overwrite |-> overwrite, no_validate |-> no_validate]
        /\ args' = [args EXCEPT
                    !.headless = StoreTrue(headless, FALSE),
                    !.scenario = scenario,
                    !.workspace = w,
                    !.quickrun = StoreTrue(quickrun, FALSE),
                    !.overwrite = StoreTrue(overwrite, FALSE),
                    !.validate = StoreTrue(no_validate, TRUE)]
    /\ values' = None
    /\ pc' = "configure_logging"
    /\ UNCHANGED <<env, log_configured, paramset, workspace, prompts, user_response, calls,
                   log, stdout, stderr, exit_code>>

(* mutant: the handler is added to the root logger before parse_args() *)
ConfigureLogging_First ==
    /\ pc = "parse_args"
    /\ ~log_configured
    /\ log_configured' = TRUE
    /\ UNCHANGED <<fixed, pc, values, args, paramset, workspace, prompts, user_response,
                   calls, log, stdout, stderr, exit_code>>

(* the stream handler is added to the root logger *)
ConfigureLogging ==
    /\ pc = "configure_logging"
    /\ log_configured' = TRUE
    /\ pc' = "import_ui"
    /\ UNCHANGED <<fixed, values, args, paramset, workspace, prompts, user_response, calls,
                   log, stdout, stderr, exit_code>>

(* mutant: a headless run does not import the UI toolkit *)
ImportUI_HeadlessSkips ==
    /\ pc = "import_ui"
    /\ IF ui_installed \/ args.headless
       THEN /\ pc' = IF args.headless THEN "read_parameter_set" ELSE "gui"
            /\ UNCHANGED <<stdout, exit_code>>
       ELSE /\ stdout' = Append(stdout,
                "Error: ui not installed:\n    pip install natcap.invest[ui]")
            /\ pc' = "returned"
            /\ exit_code' = Some(3)
    /\ UNCHANGED <<fixed, values, args, log_configured, paramset, workspace,
                   prompts, user_response, calls, log, stderr>>

(* import sip; from natcap.invest.ui import inputs *)
ImportUI ==
    /\ pc = "import_ui"
    /\ IF ui_installed
       THEN /\ pc' = IF args.headless THEN "read_parameter_set" ELSE "gui"
            /\ UNCHANGED <<stdout, exit_code>>
       ELSE /\ stdout' = Append(stdout,
                "Error: ui not installed:\n    pip install natcap.invest[ui]")
            /\ pc' = "returned"
            /\ exit_code' = Some(3)
    /\ UNCHANGED <<fixed, values, args, log_configured, paramset, workspace,
                   prompts, user_response, calls, log, stderr>>

(* scenarios.read_parameter_set(path): the ParameterSets the call may
   return; none when there is no scenario to read *)
read_parameter_set(scenario) ==
    IF scenario = None THEN {} ELSE ParamSets

(* getattr(obj, name) finds the attribute: a model module has the functions
   of the model contract, a str has neither *)
HasAttr(kind, name) == kind = "module" /\ name \in {"execute", "validate"}

(* headless: import the model module and read the scenario *)
ReadParameterSet ==
    /\ pc = "read_parameter_set"
    /\ LET target_mod == model_uis[args.model[1]].pyname
           imported == Append(calls, Call("import_module", target_mod))
       IN  IF read_parameter_set(args.scenario) = {}
           THEN /\ calls' = imported
                /\ Raise("IOError")
                /\ UNCHANGED paramset
           ELSE /\ \E ps \in read_parameter_set(args.scenario) :
                        paramset' = Some(ps)
                /\ calls' = imported
                /\ pc' = "resolve_workspace"
                /\ UNCHANGED <<stderr, exit_code>>
    /\ UNCHANGED <<fixed, values, args, log_configured, workspace, prompts, user_response,
                   log, stdout>>

(* mutant: the paramset's workspace_dir wins over the CLI option *)
ResolveWorkspace_PreferParamset ==
    /\ pc = "resolve_workspace"
    /\ IF "workspace_dir" \in DOMAIN paramset[1].args
       THEN /\ workspace' = Some(paramset[1].args["workspace_dir"])
            /\ pc' = "prepare_workspace"
            /\ UNCHANGED <<paramset, stderr, exit_code>>
       ELSE IF Truthy(args.workspace)
       THEN /\ workspace' = Some(abspath(args.workspace[1]))
            /\ paramset' = Some([paramset[1] EXCEPT !.args =
                    SetItem(@, "workspace_dir", abspath(args.workspace[1]))])
            /\ pc' = "prepare_workspace"
            /\ UNCHANGED <<stderr, exit_code>>
       ELSE /\ Exit(3, <<"Workspace not defined.">>)
            /\ UNCHANGED <<paramset, workspace>>
    /\ UNCHANGED <<fixed, values, args, log_configured, prompts, user_response, calls, log,
                   stdout>>

(* mutant: without any workspace the run goes on in the current directory *)
ResolveWorkspace_DefaultCwd ==
    /\ pc = "resolve_workspace"
    /\ IF Truthy(args.workspace)
       THEN /\ workspace' = Some(abspath(args.workspace[1]))
            /\ paramset' = Some([paramset[1] EXCEPT !.args =
                    SetItem(@, "workspace_dir", abspath(args.workspace[1]))])
       ELSE IF "workspace_dir" \in DOMAIN paramset[1].args
       THEN /\ workspace' = Some(paramset[1].args["workspace_dir"])
            /\ UNCHANGED paramset
       ELSE /\ workspace' = Some(cwd)
            /\ UNCHANGED paramset
    /\ pc' = "prepare_workspace"
    /\ UNCHANGED <<fixed, values, args, log_configured, prompts, user_response, calls, log,
                   stdout, stderr, exit_code>>

(* prefer the CLI option for the workspace, else the paramset's *)
ResolveWorkspace ==
    /\ pc = "resolve_workspace"
    /\ IF Truthy(args.workspace)
       THEN /\ workspace' = Some(abspath(args.workspace[1]))
            /\ paramset' = Some([paramset[1] EXCEPT !.args =
                    SetItem(@, "workspace_dir", abspath(args.workspace[1]))])
            /\ pc' = "prepare_workspace"
            /\ UNCHANGED <<stderr, exit_code>>
       ELSE IF "workspace_dir" \in DOMAIN paramset[1].args
       THEN /\ workspace' = Some(paramset[1].args["workspace_dir"])
            /\ pc' = "prepare_workspace"
            /\ UNCHANGED <<paramset, stderr, exit_code>>
       ELSE /\ Exit(3, <<"Workspace not defined. \nUse --workspace to specify or add a \"workspace_dir\" parameter to your scenario.">>)
            /\ UNCHANGED <<paramset, workspace>>
    /\ UNCHANGED <<fixed, values, args, log_configured, prompts, user_response, calls, log,
                   stdout>>

(* with utils.prepare_workspace(workspace, name=paramset.name): *)
PrepareWorkspace ==
    /\ pc = "prepare_workspace"
    /\ calls' = Append(calls, Call("prepare_workspace", workspace[1]))
    /\ log' = Append(log, "Arguments:")
    /\ pc' = "validate"
    /\ UNCHANGED <<fixed, values, args, log_configured, paramset, workspace,
                   prompts, user_response, stdout, stderr, exit_code>>

(* mutant: a validate function that is not found ends the run *)
Validate_Blocking ==
    /\ pc = "validate"
    /\ IF ~args.validate
       THEN /\ log' = Append(log, "Skipping validation by user request")
            /\ pc' = "overwrite_check"
            /\ UNCHANGED <<calls, stderr, exit_code>>
       ELSE IF HasAttr("str", "validate")
       THEN /\ calls' = Append(calls, Call("validate", paramset[1].args))
            /\ pc' = "overwrite_check"
            /\ UNCHANGED <<log, stderr, exit_code>>
       ELSE /\ Raise("AttributeError")
            /\ UNCHANGED <<calls, log>>
    /\ UNCHANGED <<fixed, values, args, log_configured, paramset, workspace,
                   prompts, user_response, stdout>>

(* target_mod, on which 'validate' is looked up, is the module's name *)
Validate ==
    /\ pc = "validate"
    /\ IF ~args.validate
       THEN /\ log' = Append(log, "Skipping validation by user request")
            /\ UNCHANGED calls
       ELSE IF HasAttr("str", "validate")
       THEN /\ calls' = Append(calls, Call("validate", paramset[1].args))
            /\ UNCHANGED log
       ELSE /\ log' = Append(log, paramset[1].name
                        \o " does not have a defined validation function.")
            /\ UNCHANGED calls
    /\ pc' = "overwrite_check"
    /\ UNCHANGED <<fixed, values, args, log_configured, paramset, workspace,
                   prompts, user_response, stdout, stderr, exit_code>>

OverwriteDenied ==
    Exit(2, <<"Use --workspace to define an alternate workspace.  Aborting.">>)

(* the workspace the check looks at is args.workspace, or the current
   directory when the option was not given *)
OverwriteCheck ==
    /\ pc = "overwrite_check"
    /\ LET checked == IF Truthy(args.workspace) THEN args.workspace[1]
                      ELSE cwd
       IN  /\ args' = [args EXCEPT !.workspace = Some(checked)]
           /\ IF ExistsNonEmpty(nonempty_dirs, checked) /\ ~args.overwrite
              THEN IF ~isatty
                   THEN /\ OverwriteDenied
                        /\ UNCHANGED stdout
                   ELSE /\ stdout' = Append(stdout, "Workspace exists: "
                                \o abspath(checked)
                                \o "\n    Overwrite? (y/n) ")
                        /\ pc' = "prompt"
                        /\ UNCHANGED <<stderr, exit_code>>
              ELSE /\ pc' = "execute"
                   /\ UNCHANGED <<stdout, stderr, exit_code>>
    /\ UNCHANGED <<fixed, values, log_configured, paramset, workspace, prompts, user_response,
                   calls, log>>

(* mutant: any answer but 'n' lets the run go on *)
Prompt_YesUnlessNo ==
    /\ pc = "prompt"
    /\ \E response \in Responses :
        /\ user_response' = Some(response)
        /\ IF response /= "n"
           THEN /\ log' = Append(log, "Overwriting the workspace per user input "
                                \o abspath(args.workspace[1]))
                /\ pc' = "execute"
                /\ UNCHANGED <<prompts, stdout, stderr, exit_code>>
           ELSE /\ OverwriteDenied
                /\ UNCHANGED <<prompts, log, stdout>>
    /\ UNCHANGED <<fixed, values, args, log_configured, paramset, workspace,
                   calls>>

(* raw_input() returns an answer to the overwrite question *)
Prompt ==
    /\ pc = "prompt"
    /\ \E response \in Responses :
        /\ response \notin {"y", "n"} => prompts < MaxBadResponses
        /\ user_response' = Some(response)
        /\ IF response = "y"
           THEN /\ log' = Append(log, "Overwriting the workspace per user input "
                                \o abspath(args.workspace[1]))
                /\ pc' = "execute"
                /\ UNCHANGED <<prompts, stdout, stderr, exit_code>>
           ELSE IF response = "n"
           THEN /\ OverwriteDenied
                /\ UNCHANGED <<prompts, log, stdout>>
           ELSE /\ prompts' = prompts + 1
                /\ stdout' = Append(stdout,
                                "Response must be either 'y' or 'n': ")
                /\ UNCHANGED <<pc, log, stderr, exit_code>>
    /\ UNCHANGED <<fixed, values, args, log_configured, paramset, workspace,
                   calls>>

(* getattr(model_module, 'execute')(paramset.args) *)
Execute ==
    /\ pc = "execute"
    /\ LET model_args ==
            IF "workspace_dir" \notin DOMAIN paramset[1].args
            THEN SetItem(paramset[1].args, "workspace_dir", args.workspace[1])
            ELSE paramset[1].args
       IN  /\ paramset' = Some([paramset[1] EXCEPT !.args = model_args])
           /\ IF HasAttr("module", "execute")
              THEN /\ calls' = Append(calls, Call("execute", model_args))
                   /\ \E raised \in BOOLEAN :
                        IF raised
                        THEN Raise("Exception in execute")
                        ELSE /\ pc' = "returned"
                             /\ exit_code' = Some(0)
                             /\ UNCHANGED stderr
              ELSE /\ Raise("AttributeError")
                   /\ UNCHANGED calls
    /\ UNCHANGED <<fixed, values, args, log_configured, workspace, prompts, user_response,
                   log, stdout>>

(* the interactive branch: build the model's form and run the Qt event loop *)
RunGUI ==
    /\ pc = "gui"
    /\ IF model_uis[args.model[1]].gui = None
       THEN /\ Raise("AttributeError")
            /\ UNCHANGED calls
       ELSE \E scenario_loads \in BOOLEAN, run_failed \in BOOLEAN,
               app_exitcode \in {0, 1} :
            LET form == Append(calls,
                            Call("form", model_uis[args.model[1]].gui[1]))
                loaded == IF Truthy(args.scenario)
                          THEN Append(form,
                                    Call("load_scenario", args.scenario[1]))
                          ELSE form
                placed == IF Truthy(args.workspace)
                          THEN Append(loaded, Call("workspace.set_value",
                                                   args.workspace[1]))
                          ELSE loaded
                ran == Append(placed, Call("run", args.quickrun))
            IN  IF Truthy(args.scenario) /\ ~scenario_loads
                THEN /\ calls' = loaded
                     /\ Exit(1, <<"Exception in load_scenario",
                                  "Could not load scenario: %s\n">>)
                ELSE /\ calls' = ran
                     /\ IF run_failed
                        THEN Exit(1, <<"Model " \o args.model[1]
                                        \o ": run failed\n">>)
                        ELSE IF app_exitcode /= 0
                        THEN Exit(app_exitcode,
                                  <<"App terminated with exit code 1\n">>)
                        ELSE /\ pc' = "returned"
                             /\ exit_code' = Some(0)
                             /\ UNCHANGED stderr
    /\ UNCHANGED <<fixed, values, args, log_configured, paramset, workspace,
                   prompts, user_response, log, stdout>>

Next ==
    \/ ListModelsAction
    \/ SelectModelAction
    \/ ListConflict
    \/ StoreOptions
    \/ ConfigureLogging
    \/ ImportUI
    \/ ReadParameterSet
    \/ ResolveWorkspace
    \/ PrepareWorkspace
    \/ Validate
    \/ OverwriteCheck
    \/ Prompt
    \/ Execute
    \/ RunGUI

Spec == Init /\ [][Next]_vars

----------------------------------------------------------------------------
(* The resolver applied to other catalogs than the shipped one *)

SmallNames == {"ab", "abc", "cd"}

SmallAliases == {<<>>, <<"x">>, <<"ab">>, <<"c">>, <<"x", "y">>, <<"x", "x">>}

Catalogs ==
    {_MODEL_UIS} \cup
    UNION {[ids -> {_UIMETA("natcap.invest.m", Some("m.M"), a) :
                        a \in SmallAliases}] :
            ids \in SUBSET SmallNames \ {{}}}

InitCatalog ==
    /\ model_uis \in Catalogs
    /\ InitProcess
    /\ NoArchiving
    /\ NoRegistry

NextCatalog ==
    \/ ListModelsAction
    \/ SelectModelAction

SpecCatalog == InitCatalog /\ [][NextCatalog]_vars

----------------------------------------------------------------------------
(* The archiver and the extractor called as a library *)

World ==
    [disk |-> disk, documents |-> documents, archives |-> archives,
     ntemp |-> ntemp]

InitArchive ==
    /\ model_uis = _MODEL_UIS
    /\ InitProcess
    /\ ui_installed
    /\ ~isatty
    /\ nonempty_dirs = {}
    /\ scenario_args \in ParameterDicts
    /\ disk = SourceDisk
    /\ documents = EmptyDict
    /\ archives = ForeignArchives
    /\ ntemp = 0
    /\ archived = <<>>
    /\ extracted = None
    /\ NoRegistry

process == <<model_uis, pc, argv, values, args, log_configured, paramset,
             workspace, prompts, user_response, calls, log, stdout, stderr, exit_code,
             ui_installed, isatty, nonempty_dirs>>

(* collect_parameters(parameters, archive_uri) *)
CollectParameters ==
    /\ extracted = None
    /\ Len(archived) < MaxArchives
    /\ \E archive_uri \in ArchiveURIs, order \in KeyOrders :
        \E r \in {collect_parameters(scenario_args, archive_uri, order, World,
                                     archived)} :
            /\ disk' = r.world.disk
            /\ documents' = r.world.documents
            /\ archives' = r.world.archives
            /\ ntemp' = r.world.ntemp
            /\ archived' = Append(archived, r.call)
            /\ scenario_args' = r.call.caller
    /\ UNCHANGED <<process, registry_files, extracted>>

(* extract_parameters_archive(workspace_dir, archive_uri, input_folder) *)
ExtractParametersArchive ==
    /\ extracted = None
    /\ \E workspace_dir \in TargetWorkspaces, archive_uri \in DOMAIN archives,
          input_folder \in InputFolders :
        \E r \in {extract_parameters_archive(workspace_dir, archive_uri,
                    input_folder, CHOOSE order \in KeyOrders : TRUE, World)} :
            /\ disk' = r.world.disk
            /\ documents' = r.world.documents
            /\ ntemp' = r.world.ntemp
            /\ extracted' = Some([workspace_dir |-> workspace_dir,
                                  archive_uri |-> archive_uri,
                                  input_folder |-> r.folder,
                                  raised |-> r.raised,
                                  args |-> r.args])
    /\ UNCHANGED <<process, registry_files, scenario_args, archives, archived>>

NextArchive ==
    \/ CollectParameters
    \/ ExtractParametersArchive

SpecArchive == InitArchive /\ [][NextArchive]_vars

----------------------------------------------------------------------------
(* The file registry of pollination.execute, for the base files a model
   may declare *)

InitRegistry ==
    /\ model_uis = _MODEL_UIS
    /\ InitProcess
    /\ ui_installed
    /\ ~isatty
    /\ nonempty_dirs = {}
    /\ NoArchiving
    /\ base_files \in [output : TemplateMappings,
                        intermediate : TemplateMappings,
                        tmp : TemplateMappings]
    /\ pollination_args \in PollinationArgs
    /\ f_reg = None

(* the groups execute hands to build_file_registry *)
RegistryGroups(output_dir, intermediate_output_dir) ==
    <<<<base_files.output, output_dir>>,
      <<base_files.intermediate, intermediate_output_dir>>,
      <<base_files.tmp, output_dir>>>>

(* execute(args) up to its file registry: the suffix, the two directories,
   utils.make_directories and utils.build_file_registry *)
BuildFileRegistry ==
    /\ f_reg = None
    /\ LET file_suffix == make_suffix_string(pollination_args, "results_suffix")
           intermediate_output_dir ==
               join(pollination_args["workspace_dir"], "intermediate_outputs")
           output_dir == pollination_args["workspace_dir"]
           groups == RegistryGroups(output_dir, intermediate_output_dir)
       IN  \E r \in {build_file_registry(groups, file_suffix)} :
            /\ disk' = SetItem(SetItem(disk, output_dir, Entry("dir", "")),
                               intermediate_output_dir, Entry("dir", ""))
            /\ IF r.registry = None
               THEN \E key \in r.offending :
                        f_reg' = Some([groups |-> groups,
                                       suffix |-> file_suffix,
                                       raised |-> Some([exception |-> "DuplicateKey",
                                                        key |-> key]),
                                       registry |-> None])
               ELSE f_reg' = Some([groups |-> groups,
                                   suffix |-> file_suffix,
                                   raised |-> None,
                                   registry |-> r.registry])
    /\ UNCHANGED <<process, base_files, pollination_args, scenario_args,
                   documents, archives, ntemp, archived, extracted>>

NextRegistry == BuildFileRegistry

SpecRegistry == InitRegistry /\ [][NextRegistry]_vars

----------------------------------------------------------------------------
(* Properties of the model resolution *)

(* the identifiers of the catalog that start with the token *)
PrefixMatches(t) == {m \in DOMAIN model_uis : StartsWith(m, t)}

(* SelectModelAction was called with a non-empty token and has acted *)
Resolving == values /= None /\ values[1] /= ""

tok == values[1]

ModelSelected(m) == pc = "parse_options" /\ args.model = Some(m)

NoModelRun ==
    /\ args.model = None
    /\ \A i \in 1..Len(calls) : calls[i].fn \notin {"validate", "execute"}

(* C1: a non-empty token that exactly one identifier of the catalog starts
   with selects that identifier, also when the token is an alias of another
   model.  The shipped catalog passes the assert of the alias loop, and so
   do the other catalogs this is stated for. *)
C1_UniquePrefix ==
    /\ model_uis = _MODEL_UIS => ~AliasAssertFails(model_uis)
    /\ (/\ Resolving
        /\ ~AliasAssertFails(model_uis)
        /\ Cardinality(PrefixMatches(tok)) = 1)
            => \E m \in PrefixMatches(tok) : ModelSelected(m)

C1_Witness ==
    /\ Resolving
    /\ Cardinality(PrefixMatches(tok)) = 1
    /\ tok \notin DOMAIN model_uis
    /\ tok \in AliasNames(model_uis)
    /\ \E m \in PrefixMatches(tok) :
            /\ tok \notin Range(model_uis[m].aliases)
            /\ ModelSelected(m)

ProperPrefixIdentifiers ==
    {"coastal_blue_carbon", "fisheries", "overlap_analysis",
     "habitat_risk_assessment", "scenario_generator"}

(* C2: a token equal to an identifier of the catalog selects that identifier,
   also when it is a proper prefix of other identifiers *)
C2_ExactIdentifier ==
    /\ ProperPrefixIdentifiers \subseteq DOMAIN model_uis
    /\ \A m \in ProperPrefixIdentifiers :
            Cardinality({o \in DOMAIN model_uis : StartsWith(o, m)}) > 1
    /\ (Resolving /\ tok \in DOMAIN model_uis) => ModelSelected(tok)

C2_Witness ==
    /\ Resolving
    /\ tok = "coastal_blue_carbon"
    /\ ModelSelected("coastal_blue_carbon")

AmbiguousText(t) ==
    "Model string '" \o t \o "' is ambiguous:\n    "
        \o Join(" ", sorted(PrefixMatches(t)))

(* the process ended in the AmbiguousModel outcome for the token *)
AmbiguousOutcome(t) ==
    /\ pc = "exited"
    /\ exit_code /= Some(0)
    /\ stderr = <<AmbiguousText(t)>>

(* C3 as stated: with more than one prefix match the ambiguity wins and the
   token is not selected, even when it is an identifier *)
C3_AmbiguityTrumpsExact ==
    (Resolving /\ Cardinality(PrefixMatches(tok)) > 1)
        => ~ModelSelected(tok)

(* C3 as amended: with more than one prefix match an exact identifier is
   selected all the same, and the ambiguity is the outcome exactly when the
   token is neither an identifier nor an alias *)
C3_ExactTrumpsAmbiguity ==
    (Resolving /\ Cardinality(PrefixMatches(tok)) > 1)
        => /\ tok \in DOMAIN model_uis => ModelSelected(tok)
           /\ AmbiguousOutcome(tok)
                <=> tok \notin DOMAIN model_uis \cup AliasNames(model_uis)

C3_Witness ==
    /\ Resolving
    /\ Cardinality(PrefixMatches(tok)) > 1
    /\ tok \in DOMAIN model_uis
    /\ ModelSelected(tok)

DeclaredAliases ==
    {"cbc", "cbc_pre", "cv", "cpp", "cpr", "fc", "hq", "hra", "hra_pre",
     "hwy", "oa", "oa_mz", "sg", "sgp", "sq", "swy", "hs"}

(* C4: a token equal to a declared alias selects the model that declares the
   alias; 'cbc' selects coastal_blue_carbon *)
C4_Alias ==
    /\ AliasNames(model_uis) = DeclaredAliases
    /\ (Resolving /\ tok \in DeclaredAliases)
        => \E m \in DOMAIN model_uis :
            /\ tok \in Range(model_uis[m].aliases)
            /\ ModelSelected(m)
    /\ (Resolving /\ tok = "cbc") => ModelSelected("coastal_blue_carbon")

C4_Witness ==
    /\ Resolving
    /\ tok = "cbc"
    /\ ModelSelected("coastal_blue_carbon")

(* C5: a non-empty token that no identifier starts with and that is no alias
   ends the run in the UnknownModel outcome, which names the token; no model
   is selected, validated or executed *)
C5_UnknownModel ==
    (/\ Resolving
     /\ PrefixMatches(tok) = {}
     /\ tok \notin AliasNames(model_uis))
        => /\ pc = "exited"
           /\ exit_code /= Some(0)
           /\ stderr = <<"Error: '" \o tok \o "' not a known model">>
           /\ NoModelRun

C5_Witness ==
    /\ Resolving
    /\ tok = "xyz_not_real"
    /\ pc = "exited"

(* C6: a token that two or more identifiers start with, and that is neither
   an identifier nor an alias, ends the run in the AmbiguousModel outcome
   that lists exactly the identifiers starting with the token; no model is
   selected or executed *)
C6_AmbiguousModel ==
    (/\ Resolving
     /\ Cardinality(PrefixMatches(tok)) >= 2
     /\ tok \notin DOMAIN model_uis
     /\ tok \notin AliasNames(model_uis))
        => AmbiguousOutcome(tok) /\ NoModelRun

C6_Witness ==
    /\ Resolving
    /\ tok = "coastal"
    /\ pc = "exited"
    /\ Cardinality(PrefixMatches(tok)) = 3

(* C7: SelectModelAction called with an empty or absent token prints the
   usage and the model list and ends the run with status 0, no model being
   resolved, validated or executed *)
C7_EmptyToken ==
    [][(pc = "parse_args" /\ ~args'.list /\ values' \in {None, Some("")})
        => /\ pc' = "exited"
           /\ exit_code' = Some(0)
           /\ Len(stdout') = 2
           /\ stdout'[1] = "usage: invest"
           /\ stderr' = <<>>
           /\ NoModelRun']_vars

C7_Witness ==
    /\ values = Some("")
    /\ pc = "exited"
    /\ exit_code = Some(0)

(* no alias is declared twice and no alias is an identifier *)
CollisionFree(cat) ==
    /\ ~AliasAssertFails(cat)
    /\ AliasNames(cat) \cap DOMAIN cat = {}

AssertionFailed == stderr = <<"AssertionError">>

(* C8 as stated: a catalog that gets through the alias loop of the resolver
   has no alias equal to another alias or to an identifier *)
C8_LoopEnforcesCollisionFree ==
    (Resolving /\ ~AssertionFailed) => CollisionFree(model_uis)

(* C8 as amended: the shipped catalog is collision-free; for the catalog it
   is given the alias loop fails its assert exactly when an alias is declared
   twice, and an alias equal to an identifier gets through *)
C8_LoopEnforcesUniqueAliases ==
    /\ model_uis = _MODEL_UIS => CollisionFree(model_uis)
    /\ Resolving =>
        (AssertionFailed <=>
            \E d, e \in AliasDecls(model_uis) :
                /\ d /= e
                /\ model_uis[d[1]].aliases[d[2]]
                    = model_uis[e[1]].aliases[e[2]])

C8_Witness ==
    /\ Resolving
    /\ AssertionFailed
    /\ pc = "exited"
    /\ model_uis /= _MODEL_UIS

----------------------------------------------------------------------------
(* Properties of the headless branch *)

Executed(i) == i \in 1..Len(calls) /\ calls[i].fn = "execute"

(* C9: with --workspace W on the command line, W a non-empty path, execute
   receives the absolute path of W as workspace_dir, whatever the
   ParameterSet held *)
C9_WorkspaceOverride ==
    \A i \in 1..Len(calls) :
        (Executed(i) /\ Truthy(argv.workspace))
            => /\ "workspace_dir" \in DOMAIN calls[i].arg
               /\ isabs(calls[i].arg["workspace_dir"])
               /\ calls[i].arg["workspace_dir"] =
                    IF isabs(argv.workspace[1]) THEN argv.workspace[1]
                    ELSE cwd \o "/" \o argv.workspace[1]

C9_Witness ==
    \E i \in 1..Len(calls) :
        /\ Executed(i)
        /\ argv.workspace = Some("ws")
        /\ calls[i].arg["workspace_dir"] = "/home/user/ws"

(* C10: a ParameterSet without workspace_dir and no --workspace option end
   the run with status 3 before the workspace is prepared and before
   validate or execute is called *)
C10_MissingWorkspace ==
    (/\ paramset /= None
     /\ "workspace_dir" \notin DOMAIN paramset[1].args
     /\ ~Truthy(argv.workspace))
        => /\ pc = "resolve_workspace"
                \/ (pc = "exited" /\ exit_code = Some(3))
           /\ \A i \in 1..Len(calls) :
                calls[i].fn \notin
                    {"prepare_workspace", "validate", "execute"}

C10_Witness ==
    /\ paramset /= None
    /\ "workspace_dir" \notin DOMAIN paramset[1].args
    /\ pc = "exited"
    /\ exit_code = Some(3)
    /\ argv.headless

----------------------------------------------------------------------------
(* Properties of the overwrite check and of validation *)

Finished == pc \in {"exited", "raised", "returned"}

Denied ==
    /\ pc = "exited"
    /\ exit_code = Some(2)
    /\ \E j \in 1..Len(stderr) :
        stderr[j] = "Use --workspace to define an alternate workspace.  Aborting."

(* the user answered 'y' to the overwrite question *)
Confirmed ==
    \E j \in 1..Len(log) :
        StartsWith(log[j], "Overwriting the workspace per user input ")

(* the workspace of the run exists and holds files *)
WorkspaceInUse == workspace /= None /\ ExistsNonEmpty(nonempty_dirs, workspace[1])

(* C11: in a headless run whose workspace exists and is not empty, without
   --overwrite and with a non-interactive terminal, execute is never
   invoked and the run, once over, has exited with status 2 and the message
   that points to --workspace *)
C11_OverwriteDenied ==
    (WorkspaceInUse /\ ~argv.overwrite /\ ~isatty)
        => /\ \A i \in 1..Len(calls) : ~Executed(i)
           /\ Finished => Denied

(* C12: whenever execute is invoked with a workspace_dir that exists and is
   not empty and --overwrite was not given, the overwrite was confirmed
   first, wherever the workspace came from *)
C12_CheckOnEffectiveWorkspace ==
    \A i \in 1..Len(calls) :
        (/\ Executed(i)
         /\ ExistsNonEmpty(nonempty_dirs, calls[i].arg["workspace_dir"])
         /\ ~argv.overwrite)
            => Confirmed

ValidateCalledBefore(i) ==
    \E j \in 1..(i - 1) : calls[j].fn = "validate"

(* C13: without --no-validate, validate is called before execute; with it,
   validate is never called *)
C13_ValidationSwitch ==
    /\ \A i \in 1..Len(calls) :
        (Executed(i) /\ ~argv.no_validate) => ValidateCalledBefore(i)
    /\ argv.no_validate => \A j \in 1..Len(calls) : calls[j].fn /= "validate"

(* the run entered the workspace context: its workspace was resolved *)
PastResolution ==
    \E j \in 1..Len(calls) : calls[j].fn = "prepare_workspace"

(* the steps of main() inside the workspace context *)
HeadlessStep ==
    PrepareWorkspace \/ Validate \/ OverwriteCheck \/ Prompt \/ Execute

NoValidateWarning ==
    \E j \in 1..Len(log) :
        log[j] = paramset[1].name
                    \o " does not have a defined validation function."

(* C14: a headless run past workspace resolution never stops short of
   execute other than by the denial at the overwrite check: while it is not
   over it has a next step, and once over without a denial, execute was
   invoked; a validate function that is not found leaves a warning in the
   log *)
C14_ValidationNeverBlocks ==
    PastResolution
        => /\ ~Finished => ENABLED HeadlessStep
           /\ (Finished /\ ~Denied) => \E i \in 1..Len(calls) : Executed(i)
           /\ \A i \in 1..Len(calls) :
                (Executed(i) /\ ~ValidateCalledBefore(i)) => NoValidateWarning

C14_Witness ==
    /\ pc = "returned"
    /\ NoValidateWarning
    /\ \E i \in 1..Len(calls) : Executed(i)

----------------------------------------------------------------------------
(* Properties of the archiver and of the extractor *)

(* the pairs of a leaf of the first value and the leaf at the same place
   of the second, two values of one shape *)
RECURSIVE LeafPairs(_, _)
LeafPairs(before, after) ==
    IF Class(before) = "dict"
    THEN UNION {LeafPairs(Content(before)[k], Content(after)[k]) :
                    k \in DOMAIN Content(before)}
    ELSE IF Class(before) = "list"
    THEN UNION {LeafPairs(Content(before)[i], Content(after)[i]) :
                    i \in 1..Len(Content(before))}
    ELSE {<<before, after>>}

ReservedKeys == {"workspace_dir", "suffix", "results_suffix"}

(* the part of a dictionary that the walk visits *)
Walked(d) == [k \in DOMAIN d \ ReservedKeys |-> d[k]]

(* the leaves of the parameters of a call that came to its end, each with
   what stands at its place in the rewritten parameters *)
Rewrites(call) ==
    LeafPairs(PyDict(Walked(call.parameters)), PyDict(Walked(call.new_args)))

IsString(value) == Class(value) \in {"str", "unicode"}

Completed(call) == call.raised = None

Sources(call) == {call.copies[i].src : i \in 1..Len(call.copies)}

(* the string names a file, a folder or a dataset of the caller *)
FileValued(value) == IsString(value) /\ exists(SourceDisk, Content(value))

(* the leaves of the call's parameters that name the source *)
Occurrences(call, src) ==
    {p \in Rewrites(call) : FileValued(p[1]) /\ abspath(Content(p[1])) = src}

(* C15: within one call of collect_parameters no source path is copied
   twice, and all the occurrences of a staged source path in the parameters
   are rewritten to one and the same staged path *)
C15_Deduplication ==
    \A n \in 1..Len(archived) :
        LET call == archived[n]
        IN  /\ \A i, j \in 1..Len(call.copies) :
                call.copies[i].src = call.copies[j].src => i = j
            /\ Completed(call) =>
                \A src \in Sources(call) :
                    \A p, q \in Occurrences(call, src) :
                        /\ p[2] = q[2]
                        /\ p[2] = call.files_found[src]

C15_Witness ==
    \E n \in 1..Len(archived) :
        /\ Completed(archived[n])
        /\ Len(archived[n].copies) = 1
        /\ Cardinality(Occurrences(archived[n],
                                   "/home/user/notes.txt")) = 2
        /\ "/home/user/notes.txt" \in Sources(archived[n])

(* C16: every call of collect_parameters stages by itself what it
   rewrites: each source path in its files_found was copied by this call to
   the staged path recorded, below this call's own temporary workspace, so
   that a source archived by two calls is staged twice *)
C16_ScopedToOneCall ==
    /\ \A m, n \in 1..Len(archived) :
        archived[m].temp_workspace = archived[n].temp_workspace => m = n
    /\ \A n \in 1..Len(archived) :
        LET call == archived[n]
        IN  \A src \in DOMAIN call.files_found :
                \E i \in 1..Len(call.copies) :
                    /\ call.copies[i].src = src
                    /\ Below(call.temp_workspace, call.copies[i].dst)
                    /\ call.copies[i].dst =
                        join(call.temp_workspace,
                             Content(call.files_found[src]))

C16_Witness ==
    /\ Len(archived) = 2
    /\ "/data/aoi.shp" \in Sources(archived[1])
    /\ "/data/aoi.shp" \in Sources(archived[2])
    /\ archived[1].files_found["/data/aoi.shp"]
            /= archived[2].files_found["/data/aoi.shp"]

(* the parameters document written by the call *)
Document(call) ==
    Content(documents[join(call.temp_workspace, "parameters.json")])

(* the call copied nothing on account of an ignored key: a source path
   named by the value of such a key was copied only if a walked leaf names
   it as well *)
ReservedNotStaged(call) ==
    \A k \in ReservedKeys \cap DOMAIN call.parameters :
        LET value == call.parameters[k]
        IN  (IsString(value) /\ abspath(Content(value)) \in Sources(call))
                => Occurrences(call, abspath(Content(value))) /= {}

(* C17 as stated: workspace_dir, suffix and results_suffix are not staged,
   and each of them that the input holds stands in the parameters document
   with its original value *)
C17_ReservedKeysRestored ==
    \A n \in 1..Len(archived) :
        Completed(archived[n]) =>
            /\ ReservedNotStaged(archived[n])
            /\ \A k \in ReservedKeys \cap DOMAIN archived[n].parameters :
                /\ k \in DOMAIN Document(archived[n])
                /\ Document(archived[n])[k]
                        = dumps(archived[n].parameters[k])

(* C17 amended: workspace_dir, suffix and results_suffix are not staged;
   suffix and results_suffix, when the input holds them, stand in the
   parameters document with their original value, and workspace_dir is not
   in the document *)
C17_SuffixRestoredWorkspaceDropped ==
    \A n \in 1..Len(archived) :
        Completed(archived[n]) =>
            /\ ReservedNotStaged(archived[n])
            /\ \A k \in {"suffix", "results_suffix"}
                            \cap DOMAIN archived[n].parameters :
                /\ k \in DOMAIN Document(archived[n])
                /\ Document(archived[n])[k]
                        = dumps(archived[n].parameters[k])
            /\ "workspace_dir" \notin DOMAIN Document(archived[n])

C17_Witness ==
    \E n \in 1..Len(archived) :
        /\ Completed(archived[n])
        /\ "workspace_dir" \in DOMAIN archived[n].parameters
        /\ "suffix" \in DOMAIN archived[n].parameters
        /\ Document(archived[n])["suffix"] = Py("string", "/data/a/params.txt")
        /\ "/data/a/params.txt" \notin Sources(archived[n])
        /\ "workspace_dir" \notin DOMAIN Document(archived[n])

(* the call that wrote the archive as it is now *)
Producer(archive_path) ==
    {n \in 1..Len(archived) :
        /\ archived[n].archive = Some(archive_path)
        /\ \A m \in (n + 1)..Len(archived) :
            archived[m].archive /= Some(archive_path)}

WithoutWorkspace(d) == [k \in DOMAIN d \ {"workspace_dir"} |-> d[k]]

(* the entry came back from the round trip: a file-valued one names
   something on the disk with the content of the original, any other one
   is the same value *)
CameBack(original, returned) ==
    IF FileValued(original)
    THEN /\ IsString(returned)
         /\ exists(disk, Content(returned))
         /\ disk[abspath(Content(returned))].content
                = SourceDisk[abspath(Content(original))].content
    ELSE IF IsString(original)
    THEN IsString(returned) /\ Content(returned) = Content(original)
    ELSE returned = original

(* C18: extracting into workspace W the archive made from the parameters P
   returns P, but for workspace_dir, which is W, and for the file-valued
   entries, which name copies with the content of the originals *)
C18_RoundTrip ==
    extracted /= None =>
        \A n \in Producer(abspath(extracted[1].archive_uri)) :
            LET P == archived[n].parameters
                R == extracted[1].args
            IN  /\ extracted[1].raised = None
                /\ DOMAIN R = DOMAIN P \cup {"workspace_dir"}
                /\ Content(R["workspace_dir"]) = extracted[1].workspace_dir
                /\ \A p \in LeafPairs(PyDict(WithoutWorkspace(P)),
                                      PyDict(WithoutWorkspace(R))) :
                        CameBack(p[1], p[2])

(* C19: every value the archiver rewrote is a relative path *)
C19_StagedReferencesRelative ==
    \A n \in 1..Len(archived) :
        Completed(archived[n]) =>
            \A p \in Rewrites(archived[n]) :
                p[2] /= p[1] => ~isabs(Content(p[2]))

(* C20: the dictionary returned by extract_parameters_archive has
   workspace_dir equal to the workspace the caller gave, whatever the
   parameters document of the archive holds *)
C20_ExtractorForcesWorkspace ==
    (extracted /= None /\ extracted[1].raised = None)
        => /\ "workspace_dir" \in DOMAIN extracted[1].args
           /\ Content(extracted[1].args["workspace_dir"])
                    = extracted[1].workspace_dir

C20_Witness ==
    /\ extracted /= None
    /\ extracted[1].archive_uri = "/in/old.tar.gz"
    /\ "workspace_dir" \in DOMAIN
            Content(archives["/in/old.tar.gz"].docs["parameters.json"])
    /\ extracted[1].workspace_dir = "/new/ws"
    /\ extracted[1].args["workspace_dir"] = PyStr("/new/ws")

(* two values of one shape: the same keys in every dictionary and the same
   length of every list, down to the leaves *)
RECURSIVE SameShape(_, _)
SameShape(before, after) ==
    IF Class(before) = "dict"
    THEN /\ Class(after) = "dict"
         /\ DOMAIN Content(after) = DOMAIN Content(before)
         /\ \A k \in DOMAIN Content(before) :
                SameShape(Content(before)[k], Content(after)[k])
    ELSE IF Class(before) = "list"
    THEN /\ Class(after) = "list"
         /\ Len(Content(after)) = Len(Content(before))
         /\ \A i \in 1..Len(Content(before)) :
                SameShape(Content(before)[i], Content(after)[i])
    ELSE Class(after) \notin {"dict", "list"}

(* the parameters document of the archive that was extracted, as loaded *)
ExtractedDocument ==
    Content(load(archives[abspath(extracted[1].archive_uri)]
                    .docs["parameters.json"]))

(* the extractor rewrites the string: it is not empty and the input folder
   joined with it exists *)
NamesExtracted(value) ==
    /\ IsString(value)
    /\ Content(value) /= ""
    /\ exists(disk, join(extracted[1].input_folder, Content(value)))

(* C21: the dictionary the extractor returns has the shape of the
   parameters document; a string of the document that is not empty and that,
   joined to the input folder, names something that exists is returned as
   that joined path, and every other leaf is returned as it is *)
C21_ExtractorRewriteRule ==
    (extracted /= None /\ extracted[1].raised = None) =>
        LET before == PyDict(WithoutWorkspace(ExtractedDocument))
            after == PyDict(WithoutWorkspace(extracted[1].args))
        IN  /\ SameShape(before, after)
            /\ \A p \in LeafPairs(before, after) :
                    IF NamesExtracted(p[1])
                    THEN /\ IsString(p[2])
                         /\ Content(p[2]) = join(extracted[1].input_folder,
                                                 Content(p[1]))
                    ELSE p[2] = p[1]

(* a relative name was joined to the input folder, a number and the empty
   string were not *)
C21_Witness ==
    /\ extracted /= None
    /\ extracted[1].raised = None
    /\ extracted[1].input_folder = "/home/user/inputs"
    /\ \E k \in DOMAIN ExtractedDocument :
            /\ ExtractedDocument[k] = PyUnicode("lulc.tif")
            /\ extracted[1].args[k] = PyUnicode("/home/user/inputs/lulc.tif")
    /\ \E k \in DOMAIN ExtractedDocument :
            /\ Class(ExtractedDocument[k]) = "int"
            /\ extracted[1].args[k] = ExtractedDocument[k]

EndsWith(s, suffix) ==
    /\ Len(s) >= Len(suffix)
    /\ SubSeq(s, Len(s) - Len(suffix) + 1, Len(s)) = suffix

(* the path at which the archive of the destination is to be found *)
ArchiveName(archive_uri) ==
    IF EndsWith(archive_uri, ".tar.gz") THEN archive_uri
    ELSE archive_uri \o ".tar.gz"

(* C22: a call of collect_parameters that came to its end wrote one archive,
   at the destination when the destination ends in '.tar.gz' and else at the
   destination with '.tar.gz' appended, never at a destination that ends in
   '.tar.gz' with a second '.tar.gz' appended; the archive files on the disk
   are the ones found at the start and these *)
C22_ArchiveNaming ==
    /\ \A n \in 1..Len(archived) :
        LET call == archived[n]
        IN  Completed(call) =>
                /\ call.archive = Some(abspath(ArchiveName(call.archive_uri)))
                /\ EndsWith(call.archive[1], ".tar.gz")
                /\ EndsWith(call.archive_uri, ".tar.gz") =>
                        call.archive[1] /= abspath(call.archive_uri \o ".tar.gz")
    /\ DOMAIN archives =
            DOMAIN ForeignArchives
            \cup {abspath(ArchiveName(archived[n].archive_uri)) :
                    n \in {m \in 1..Len(archived) : Completed(archived[m])}}

C22_Witness ==
    /\ Len(archived) = 2
    /\ archived[1].archive_uri = "/out/scenario.tar.gz"
    /\ archived[1].archive = Some("/out/scenario.tar.gz")
    /\ archived[2].archive_uri = "/out/other"
    /\ archived[2].archive = Some("/out/other.tar.gz")
    /\ DOMAIN archives = DOMAIN ForeignArchives
                            \cup {"/out/scenario.tar.gz", "/out/other.tar.gz"}

(* the members of the archive the call wrote *)
ArchiveMembers(call) == archives[call.archive[1]].files

(* C23: every archive written by collect_parameters holds an entry
   'parameters', an entry 'log' and a directory 'data', every staged copy is
   below that directory, and the extractor finds the parameters document of
   such an archive *)
C23_ArchiveLayout ==
    /\ \A n \in 1..Len(archived) :
        LET call == archived[n]
        IN  (Completed(call) /\ n \in Producer(call.archive[1])) =>
                /\ "parameters" \in DOMAIN ArchiveMembers(call)
                /\ "log" \in DOMAIN ArchiveMembers(call)
                /\ "data" \in DOMAIN ArchiveMembers(call)
                /\ ArchiveMembers(call)["data"].kind = "dir"
                /\ \A i \in 1..Len(call.copies) :
                        Below(join(call.temp_workspace, "data"),
                              call.copies[i].dst)
    /\ (extracted /= None
            /\ Producer(abspath(extracted[1].archive_uri)) /= {})
        => extracted[1].raised = None

----------------------------------------------------------------------------
(* Properties of the file registry *)

GroupNames(call, i) == DOMAIN call.groups[i][1]

(* no symbolic name is in two groups *)
DisjointGroups(call) ==
    \A i, j \in 1..Len(call.groups) :
        i /= j => GroupNames(call, i) \cap GroupNames(call, j) = {}

(* C24: when the symbolic names of the groups are pairwise disjoint, the
   registry built holds every symbolic name once, with the directory of its
   group joined with its pattern, the suffix in place; when a symbolic name
   is in more than one group, the construction fails with DuplicateKey for
   such a name and there is no registry *)
C24_FileRegistry ==
    f_reg /= None =>
        LET call == f_reg[1]
        IN  IF DisjointGroups(call)
            THEN /\ call.raised = None
                 /\ call.registry /= None
                 /\ DOMAIN call.registry[1] =
                        UNION {GroupNames(call, i) : i \in 1..Len(call.groups)}
                 /\ \A i \in 1..Len(call.groups) :
                        \A k \in GroupNames(call, i) :
                            call.registry[1][k] =
                                join(call.groups[i][2],
                                     Substitute(call.groups[i][1][k],
                                                call.suffix))
            ELSE /\ call.raised /= None
                 /\ call.raised[1].exception = "DuplicateKey"
                 /\ \E i, j \in 1..Len(call.groups) :
                        /\ i /= j
                        /\ call.raised[1].key \in
                                GroupNames(call, i) \cap GroupNames(call, j)
                 /\ call.registry = None

C24_Witness ==
    /\ f_reg /= None
    /\ f_reg[1].raised = None
    /\ f_reg[1].suffix = "_x"
    /\ GroupNames(f_reg[1], 1) = {"yield"}
    /\ GroupNames(f_reg[1], 2) = {"mask", "sum"}
    /\ f_reg[1].registry[1]["yield"] = "/new/ws/yield_x.tif"
    /\ f_reg[1].registry[1]["mask"] = "/new/ws/intermediate_outputs/mask_x.tif"

----------------------------------------------------------------------------
(* Properties of the dispatcher *)

InstallHint ==
    \E j \in 1..Len(stdout) :
        stdout[j] = "Error: ui not installed:\n    pip install natcap.invest[ui]"

(* main() is past the import of the UI toolkit *)
PastImport == log_configured /\ pc /= "import_ui"

(* C25: when the UI toolkit cannot be imported, a run that came to the
   import has returned 3 after printing the install hint, nothing was
   raised or written to stderr, and no collaborator (validate and execute
   among them) was called, with --headless and without *)
C25_MissingUI ==
    ~ui_installed =>
        /\ \A i \in 1..Len(calls) : calls[i].fn \notin {"validate", "execute"}
        /\ PastImport =>
            /\ pc = "returned"
            /\ exit_code = Some(3)
            /\ InstallHint
            /\ stderr = <<>>
            /\ calls = <<>>

C25_Witness ==
    /\ ~ui_installed
    /\ argv.headless
    /\ argv.scenario /= None
    /\ pc = "returned"
    /\ exit_code = Some(3)
    /\ InstallHint

(* SelectModelAction ended the run for want of a model to select *)
ResolutionFailed == Resolving /\ pc = "exited" /\ args.model = None

(* parse_args() rejected --list after the model token *)
ListRejected ==
    /\ pc = "exited"
    /\ exit_code = Some(2)
    /\ \E j \in 1..Len(stderr) :
        stderr[j] = "invest: error: argument --list: not allowed with argument model\n"

(* C26 as stated: logging is configured before the model token is resolved,
   a failure of the resolution comes after the configuration of logging,
   and with --list no model is resolved, validated or executed *)
C26_DispatcherOrder ==
    /\ args.model /= None => log_configured
    /\ ResolutionFailed => log_configured
    /\ args.list => NoModelRun

(* C26 amended: the model token is resolved while the arguments are parsed,
   before logging is configured, and a failure of the resolution ends the
   run with logging not configured; logging is configured before the branch
   calls any collaborator; --list before any model token ends the run with
   status 0, no model being resolved, validated or executed, and --list
   after a model token is rejected with no model validated or executed *)
C26_ResolutionWhileParsing ==
    /\ log_configured => args.model /= None
    /\ ResolutionFailed => ~log_configured
    /\ calls /= <<>> => log_configured
    /\ args.list =>
        /\ pc = "exited"
        /\ exit_code = Some(0)
        /\ ~log_configured
        /\ NoModelRun
    /\ ListRejected =>
        /\ ~log_configured
        /\ calls = <<>>

C26_Witness ==
    /\ log_configured
    /\ args.model = Some("carbon")
    /\ argv.headless
    /\ \E i \in 1..Len(calls) : Executed(i)

----------------------------------------------------------------------------
(* Properties of the walk of collect_parameters *)

(* C27: in a call of collect_parameters that came to its end, the rewritten
   parameters have the keys (the reserved ones apart) and the list lengths
   of the input, every leaf that is not a string stands unchanged, and so
   does every string that names no file, folder or dataset *)
C27_WalkPassthrough ==
    \A n \in 1..Len(archived) :
        LET call == archived[n]
        IN  Completed(call) =>
                /\ SameShape(PyDict(Walked(call.parameters)),
                             PyDict(Walked(call.new_args)))
                /\ \A p \in Rewrites(call) :
                        ~FileValued(p[1]) => p[2] = p[1]

----------------------------------------------------------------------------
(* Properties of the overwrite question *)

(* the overwrite question was put to the user *)
PromptIssued ==
    \E j \in 1..Len(stdout) : StartsWith(stdout[j], "Workspace exists: ")

(* how often the user was told to answer 'y' or 'n' *)
Reminders ==
    Cardinality({j \in 1..Len(stdout) :
                    stdout[j] = "Response must be either 'y' or 'n': "})

(* main() is past the test of the workspace *)
PastOverwriteCheck ==
    \/ pc \in {"prompt", "execute"}
    \/ Denied
    \/ \E i \in 1..Len(calls) : Executed(i)

(* C28: the overwrite question is put exactly when the checked workspace
   exists and is not empty, --overwrite was not given and the terminal is
   interactive; once it is put, the run waits at the question until the
   answer is 'y' or 'n', every other answer being followed by a reminder and
   by neither execute nor an exit; execute is invoked only after 'y', and
   'n' ends the run with status 2 and no execute *)
C28_InteractivePrompt ==
    /\ PastOverwriteCheck =>
        (PromptIssued <=> /\ ExistsNonEmpty(nonempty_dirs, args.workspace[1])
                          /\ ~argv.overwrite
                          /\ isatty)
    /\ ~PromptIssued => user_response = None
    /\ PromptIssued =>
        /\ pc = "prompt" <=> user_response \notin {Some("y"), Some("n")}
        /\ pc = "prompt" =>
            /\ exit_code = None
            /\ \A i \in 1..Len(calls) : ~Executed(i)
            /\ Reminders = (IF user_response = None THEN 0 ELSE prompts)
        /\ (\E i \in 1..Len(calls) : Executed(i)) => user_response = Some("y")
        /\ user_response = Some("y") =>
                pc = "execute" \/ \E i \in 1..Len(calls) : Executed(i)
        /\ user_response = Some("n") =>
            /\ Denied
            /\ \A i \in 1..Len(calls) : ~Executed(i)

(* the user answered something else, then 'y', and execute was invoked *)
C28_Witness ==
    /\ PromptIssued
    /\ Reminders >= 1
    /\ user_response = Some("y")
    /\ \E i \in 1..Len(calls) : Executed(i)

----------------------------------------------------------------------------
(* Properties of the archiver towards its caller *)

(* C29: after every call of collect_parameters, ended or raised, the
   dictionary of the caller has the keys and values that were passed to the
   call, the reserved keys and the nested dictionaries and lists among them *)
C29_InputUnchanged ==
    \A n \in 1..Len(archived) :
        /\ archived[n].caller = archived[n].parameters
        /\ scenario_args = archived[n].parameters

(* the call dropped workspace_dir from its own copy and rewrote a leaf of a
   nested list *)
C29_Witness ==
    /\ Len(archived) = 2
    /\ Completed(archived[1])
    /\ "workspace_dir" \in DOMAIN scenario_args
    /\ "workspace_dir" \notin DOMAIN archived[1].new_args
    /\ "b" \in DOMAIN scenario_args
    /\ Class(scenario_args["b"]) = "list"
    /\ archived[1].new_args["b"] /= scenario_args["b"]

(* what collect_parameters itself puts into its temporary workspace *)
OwnEntries(call) ==
    {join(call.temp_workspace, "parameters.json"),
     join(call.temp_workspace, "data")}

(* C30: within a call of collect_parameters, two different source paths are
   never copied to one place of the temporary workspace, and no source is
   copied to the place of the parameters document or of the data folder *)
C30_StagingInjective ==
    \A n \in 1..Len(archived) :
        LET call == archived[n]
        IN  /\ \A i, j \in 1..Len(call.copies) :
                    call.copies[i].src /= call.copies[j].src
                        => call.copies[i].dst /= call.copies[j].dst
            /\ \A i \in 1..Len(call.copies) :
                    call.copies[i].dst \notin OwnEntries(call)

====
